---- MODULE Spec2Model ----
(***************************************************************************)
(* Model of the flash-ai ingestion backend: the JobManager (upload job     *)
(* tracking), Server.runUploadJob / processDocument (per-file pipeline),   *)
(* and the batched vision analysis of AIService.                           *)
(***************************************************************************)
EXTENDS Integers, Sequences, FiniteSets, TLC

(***************************************************************************)
(* Bounds of the model.                                                    *)
(***************************************************************************)
MaxJobs == 1
MaxFiles == 2
MaxClock == 3
MaxPages == 3
MaxTopics == 2
MaxFailPage == 3

(***************************************************************************)
(* Program constants.                                                      *)
(***************************************************************************)
JobStatusPending == "pending"
JobStatusProcessing == "processing"
JobStatusComplete == "complete"
JobStatusFailed == "failed"
FileStatusPending == "pending"
FileStatusProcessing == "processing"
FileStatusComplete == "complete"
FileStatusError == "error"

\* Go nil: for a record-valued place (a map entry, a *DocumentResult, a held
\* snapshot) and for a payload pointer.
Nil == [nil |-> TRUE]
NilPtr == 0

\* Job identifiers are opaque strings (UUIDs); 0 stands for an identifier that
\* uuid.NewString() never hands out, 1..MaxJobs for those it does.
JobIDs == 0..MaxJobs
IssuedIDs == 1..MaxJobs
FileNames == {"a.pdf", "b.pdf"}

\* Payload objects live on the heap; a DocumentResult holds a pointer to one
\* (Payload interface{} carrying *ExamExtraction / *FlashcardExtraction).
PayloadAddrs == 1..(2 * MaxFiles)

VARIABLES
    jobs,       \* JobManager.jobs: id -> UploadJob record, or Nil when absent
    payloads,   \* heap of extraction objects: address -> contents
    held,       \* the snapshot a caller holds (from CreateJob / GetJob), or Nil
    reader,     \* a GetJob call in progress (its clone runs outside the lock)
    workers,    \* the goroutines serving uploads: runUploadJob / handleUploadDocuments
    aiConfig,   \* how NewAIService was configured: "none", "openai" or "vision"
    documents,  \* rows of the documents table (DocumentService.Create)
    topicsDB,   \* persisted extraction items: <<document id, item number>>
    client,     \* one AnalyzeMultipleImages call followed attempt by attempt, or Nil
    web,        \* the web search service: its session, its lock, the searches running
    deck        \* the flashcard database and the ReviewCard call in progress

jmVars == <<jobs, payloads, held, reader>>
pipeVars == <<workers, aiConfig, documents, topicsDB, client, web, deck>>
vars == <<jobs, payloads, held, reader, workers, aiConfig, documents, topicsDB, client, web, deck>>

(***************************************************************************)
(* strings.TrimSpace on the message tokens of the model.                   *)
(***************************************************************************)
Messages == {" ", " boom "}

TrimSpace(s) ==
    CASE s = " " -> ""
      [] s = " boom " -> "boom"
      [] s = " no pages " -> "no pages"
      [] OTHER -> s

(***************************************************************************)
(* percent(current, total): float64 division, times 100, truncated.        *)
(* FloatDeficit lists the pairs (total <= 200) whose float64 product       *)
(* (c/t)*100 lies just below the exact quotient, so that truncation gives  *)
(* one less than the integer floor(100*c/t).                               *)
(***************************************************************************)
FloatDeficit(c, t) ==
    <<c, t>> \in {<<29, 50>>, <<29, 100>>, <<57, 100>>, <<58, 100>>,
                  <<87, 150>>, <<58, 200>>, <<114, 200>>, <<116, 200>>}

\* A percentage computed without the clamping branches.
percentUnclamped(current, total) ==
    IF total <= 0 THEN current ELSE (100 * current) \div total

percent(current, total) ==
    IF total <= 0
    THEN IF current <= 0 THEN 0
         ELSE IF current > 100 THEN 100
         ELSE current
    ELSE IF current <= 0 THEN 0
         ELSE IF current >= total THEN 100
         ELSE ((100 * current) \div total) - (IF FloatDeficit(current, total) THEN 1 ELSE 0)

(***************************************************************************)
(* Records.                                                                *)
(***************************************************************************)
NewFileProgress(i, name) ==
    [Index |-> i, Name |-> name, Status |-> FileStatusPending, Step |-> "",
     Message |-> "", Current |-> 0, Total |-> 0, Percent |-> 0,
     Result |-> Nil, Error |-> ""]

DocumentResult(docID, name, pages, status, message, payload) ==
    [DocumentID |-> docID, Name |-> name, Pages |-> pages, Status |-> status,
     Message |-> message, Payload |-> payload]

\* job.file(index): the position of the slot in Files (1-based), or NilPtr.
file(job, index) ==
    IF index < 0 \/ index >= Len(job.Files) THEN NilPtr ELSE index + 1

\* cloneResult copies the struct; the Payload pointer is copied as it is.
cloneResult(result) == result

\* UploadJob.clone: fresh Files and Results slices, each slot's *Result
\* re-allocated from a struct copy.
clone(job) ==
    [ID |-> job.ID, Status |-> job.Status, CreatedAt |-> job.CreatedAt,
     UpdatedAt |-> job.UpdatedAt, Error |-> job.Error,
     Files |-> [i \in 1..Len(job.Files) |->
                  IF job.Files[i].Result = Nil THEN job.Files[i]
                  ELSE [job.Files[i] EXCEPT !.Result = cloneResult(job.Files[i].Result)]],
     Results |-> [i \in 1..Len(job.Results) |-> job.Results[i]]]

\* A pointer to an UploadJob: either the manager's own record of job id
\* ("live") or a separately allocated copy ("copy").
CopyRef(job) == [live |-> FALSE, id |-> job.ID, val |-> job]

(***************************************************************************)
(* JobManager mutators, as functions from the job table to the job table.  *)
(***************************************************************************)
\* A lookup that creates the record it does not find.
withJobCreating(table, id, changed) ==
    IF table[id] = Nil
    THEN [table EXCEPT ![id] = [ID |-> id, Status |-> JobStatusPending, CreatedAt |-> 0,
                                UpdatedAt |-> 0, Error |-> "", Files |-> <<>>,
                                Results |-> <<>>]]
    ELSE [table EXCEPT ![id] = [changed EXCEPT !.UpdatedAt = table[id].UpdatedAt + 1]]

\* withJob: look the job up under the lock; absent -> nothing happens;
\* otherwise store what fn made of it (`changed`) and stamp UpdatedAt.
withJob(table, id, changed) ==
    IF table[id] = Nil THEN table
    ELSE [table EXCEPT ![id] = [changed EXCEPT !.UpdatedAt = table[id].UpdatedAt + 1]]

SetStatusProcessing(job) == [job EXCEPT !.Status = JobStatusProcessing]
MarkProcessing(table, id) == withJob(table, id, SetStatusProcessing(table[id]))

SetStatusComplete(job) == [job EXCEPT !.Status = JobStatusComplete]
MarkCompleted(table, id) == withJob(table, id, SetStatusComplete(table[id]))

MarkFailed(table, id, msg) ==
    LET fn(job) == [job EXCEPT !.Status = JobStatusFailed, !.Error = TrimSpace(msg)]
    IN withJob(table, id, fn(table[id]))

\* A variant that creates the slot when the index names none.
MarkFileStartedAppending(table, id, index) ==
    LET started == [NewFileProgress(index, "") EXCEPT !.Status = FileStatusProcessing,
                                                      !.Message = "Starting", !.Total = 100]
        fn(job) ==
          IF file(job, index) = NilPtr THEN [job EXCEPT !.Files = Append(@, started)]
          ELSE [job EXCEPT !.Files[file(job, index)] =
                  [@ EXCEPT !.Status = FileStatusProcessing, !.Step = "",
                            !.Message = "Starting", !.Current = 0, !.Total = 100,
                            !.Percent = 0, !.Error = ""]]
    IN withJob(table, id, fn(table[id]))

MarkFileStarted(table, id, index) ==
    LET fn(job) ==
          IF file(job, index) = NilPtr THEN job
          ELSE [job EXCEPT !.Files[file(job, index)] =
                  [@ EXCEPT !.Status = FileStatusProcessing, !.Step = "",
                            !.Message = "Starting", !.Current = 0, !.Total = 100,
                            !.Percent = 0, !.Error = ""]]
    IN withJob(table, id, fn(table[id]))

UpdateFileProgress(table, id, index, step, message, current, total) ==
    LET fn(job) ==
          IF file(job, index) = NilPtr THEN job
          ELSE [job EXCEPT !.Files[file(job, index)] =
                  [@ EXCEPT !.Status = FileStatusProcessing, !.Step = step,
                            !.Message = message, !.Current = current,
                            !.Total = total, !.Percent = percent(current, total)]]
    IN withJob(table, id, fn(table[id]))

\* A variant that puts the newest result first.
MarkFileCompletePrepending(table, id, index, result) ==
    LET fn(job) ==
          LET j1 == IF file(job, index) = NilPtr THEN job
                    ELSE [job EXCEPT !.Files[file(job, index)] =
                            [@ EXCEPT !.Status = FileStatusComplete, !.Step = "complete",
                                      !.Message = "Processing complete",
                                      !.Current = 100, !.Total = 100, !.Percent = 100,
                                      !.Result = cloneResult(result), !.Error = ""]]
          IN [j1 EXCEPT !.Results = <<result>> \o @]
    IN withJob(table, id, fn(table[id]))

MarkFileComplete(table, id, index, result) ==
    LET fn(job) ==
          LET j1 == IF file(job, index) = NilPtr THEN job
                    ELSE [job EXCEPT !.Files[file(job, index)] =
                            [@ EXCEPT !.Status = FileStatusComplete, !.Step = "complete",
                                      !.Message = "Processing complete",
                                      !.Current = 100, !.Total = 100, !.Percent = 100,
                                      !.Result = cloneResult(result), !.Error = ""]]
          IN [j1 EXCEPT !.Results = Append(@, result)]
    IN withJob(table, id, fn(table[id]))

MarkFileError(table, id, index, message, result) ==
    LET msg == IF TrimSpace(message) = "" THEN "processing error" ELSE TrimSpace(message)
        fn(job) ==
          LET j1 == IF file(job, index) = NilPtr THEN job
                    ELSE [job EXCEPT !.Files[file(job, index)] =
                            [@ EXCEPT !.Status = FileStatusError, !.Step = "error",
                                      !.Message = msg, !.Error = msg,
                                      !.Current = 100, !.Total = 100, !.Percent = 100,
                                      !.Result = cloneResult(result)]]
              r1 == [result EXCEPT !.Status = FileStatusError]
              r2 == IF r1.Message = "" THEN [r1 EXCEPT !.Message = msg] ELSE r1
          IN [j1 EXCEPT !.Results = Append(@, r2)]
    IN withJob(table, id, fn(table[id]))

\* CreateJob's new record for the given names.
\* A record whose slots are built in reverse.
NewUploadJobReversed(id, fileNames) ==
    [ID |-> id, Status |-> JobStatusPending, CreatedAt |-> 0, UpdatedAt |-> 0,
     Error |-> "",
     Files |-> [i \in 1..Len(fileNames) |->
                  NewFileProgress(i - 1, fileNames[Len(fileNames) + 1 - i])],
     Results |-> <<>>]

NewUploadJob(id, fileNames) ==
    [ID |-> id, Status |-> JobStatusPending, CreatedAt |-> 0, UpdatedAt |-> 0,
     Error |-> "",
     Files |-> [i \in 1..Len(fileNames) |-> NewFileProgress(i - 1, fileNames[i])],
     Results |-> <<>>]


(***************************************************************************)
(* Callers of the JobManager: any goroutine may call any operation with    *)
(* any job id (known or not) and any index (in range or not).              *)
(***************************************************************************)
NotFound == [found |-> FALSE]

\* uuid.NewString(): an identifier no job has yet.
FreshJobID == CHOOSE id \in IssuedIDs : jobs[id] = Nil /\ \A k \in IssuedIDs : k < id => jobs[k] # Nil

FileNameLists == {names \in UNION {[1..n -> FileNames] : n \in 0..MaxFiles} :
                    \A i \in 1..Len(names) : i = 1 \/ names[i] # names[1]}

Indices == -1..MaxFiles

ProgressInputs == {<<29, 100>>, <<1, 3>>, <<150, 0>>, <<-1, -1>>}

\* Results a caller hands to MarkFileComplete / MarkFileError.
ResultInputs ==
    {DocumentResult(1, "a.pdf", 0, "ok", "", 1),
     DocumentResult(0, "a.pdf", 0, FileStatusError, "", NilPtr),
     DocumentResult(2, "b.pdf", 0, FileStatusError, "boom", NilPtr)}

\* The per-job clock is capped so that the model stays finite.
CanMutate(id) == jobs[id] # Nil => jobs[id].UpdatedAt < MaxClock

\* ghost: a GetJob in progress on job id records each value the job takes.
Observe(id, table) ==
    IF reader # Nil /\ reader.id = id
    THEN [reader EXCEPT !.seen = @ \cup {table[id]}]
    ELSE reader

\* One mutating call: the table changes under the lock, nothing else does.
Mutate(id, table) ==
    /\ CanMutate(id)
    /\ jobs' = table
    /\ reader' = Observe(id, table)
    /\ UNCHANGED <<payloads, held, pipeVars>>

CreateJob(fileNames) ==
    /\ \E id \in IssuedIDs : jobs[id] = Nil
    /\ LET id == FreshJobID
           job == NewUploadJob(id, fileNames)
       IN /\ jobs' = [jobs EXCEPT ![id] = job]
          /\ held' = CopyRef(clone(job))
    /\ UNCHANGED <<payloads, reader, pipeVars>>

CallMarkProcessing(id) == Mutate(id, MarkProcessing(jobs, id))

CallMarkCompleted(id) == Mutate(id, MarkCompleted(jobs, id))

CallMarkFailed(id, msg) == Mutate(id, MarkFailed(jobs, id, msg))

CallMarkFileStarted(id, index) == Mutate(id, MarkFileStarted(jobs, id, index))

CallUpdateFileProgress(id, index, current, total) ==
    Mutate(id, UpdateFileProgress(jobs, id, index, "analyze", "working", current, total))

CallMarkFileComplete(id, index, result) ==
    Mutate(id, MarkFileComplete(jobs, id, index, result))

CallMarkFileError(id, index, message, result) ==
    Mutate(id, MarkFileError(jobs, id, index, message, result))

(***************************************************************************)
(* GetJob: the map lookup happens under the read lock, which is released   *)
(* before job.clone() runs.  clone therefore reads the live record while   *)
(* writers may run: the header fields, the Files slice and the Results     *)
(* slice are read at different moments.                                    *)
(***************************************************************************)
GetJobLookup(id) ==
    /\ reader = Nil
    /\ IF jobs[id] = Nil
       THEN /\ held' = NotFound
            /\ reader' = Nil
       ELSE /\ reader' = [id |-> id, pc |-> "files",
                          snap |-> [clone(jobs[id]) EXCEPT !.Files = <<>>, !.Results = <<>>],
                          seen |-> {jobs[id]}]
            /\ held' = held
    /\ UNCHANGED <<jobs, payloads, pipeVars>>

GetJobCopyFiles ==
    /\ reader # Nil
    /\ reader.pc = "files"
    /\ reader' = [reader EXCEPT !.pc = "results",
                                !.snap.Files = clone(jobs[reader.id]).Files]
    /\ UNCHANGED <<jobs, payloads, held, pipeVars>>

\* A GetJob that stamps the record it reads.
GetJobReturnTouching ==
    /\ reader # Nil
    /\ reader.pc = "results"
    /\ LET snap == [reader.snap EXCEPT !.Results = clone(jobs[reader.id]).Results]
       IN held' = CopyRef(snap)
    /\ reader' = Nil
    /\ jobs' = [jobs EXCEPT ![reader.id].UpdatedAt = @ + 1]
    /\ UNCHANGED <<payloads, pipeVars>>

GetJobReturn ==
    /\ reader # Nil
    /\ reader.pc = "results"
    /\ LET snap == [reader.snap EXCEPT !.Results = clone(jobs[reader.id]).Results]
       IN held' = CopyRef(snap)
    /\ reader' = Nil
    /\ UNCHANGED <<jobs, payloads, pipeVars>>

(***************************************************************************)
(* What a caller may do with what it holds: write through the snapshot it  *)
(* got, or through the payload pointer found in it (or kept from the       *)
(* result it passed in).                                                   *)
(***************************************************************************)
Tamper(job) ==
    [job EXCEPT !.Status = "tampered",
                !.Files = [i \in 1..Len(job.Files) |->
                             [job.Files[i] EXCEPT !.Status = "tampered", !.Result = Nil]],
                !.Results = <<>>]

IsRef(h) == h # Nil /\ h # NotFound

MutateSnapshot ==
    /\ IsRef(held)
    /\ IF held.live
       THEN /\ jobs' = [jobs EXCEPT ![held.id] = Tamper(@)]
            /\ held' = held
       ELSE /\ held' = [held EXCEPT !.val = Tamper(@)]
            /\ jobs' = jobs
    /\ held'.live \/ held' # held
    /\ UNCHANGED <<payloads, reader, pipeVars>>

\* The payload pointers reachable from a job value.
PayloadsOf(job) ==
    {job.Results[i].Payload : i \in 1..Len(job.Results)}
      \cup {job.Files[i].Result.Payload : i \in {k \in 1..Len(job.Files) : job.Files[k].Result # Nil}}

HeldJob == IF held.live THEN jobs[held.id] ELSE held.val

MutatePayload ==
    /\ IsRef(held)
    /\ \E a \in PayloadsOf(HeldJob) \ {NilPtr} :
         /\ payloads[a].Notes # "tampered"
         /\ payloads' = [payloads EXCEPT ![a].Notes = "tampered"]
    /\ UNCHANGED <<jobs, held, reader, pipeVars>>

NextJM ==
    \/ \E names \in FileNameLists : CreateJob(names)
    \/ \E id \in JobIDs : CallMarkProcessing(id)
    \/ \E id \in JobIDs : CallMarkCompleted(id)
    \/ \E id \in JobIDs, msg \in Messages : CallMarkFailed(id, msg)
    \/ \E id \in JobIDs, index \in Indices : CallMarkFileStarted(id, index)
    \/ \E id \in JobIDs, index \in Indices, p \in ProgressInputs :
         CallUpdateFileProgress(id, index, p[1], p[2])
    \/ \E id \in JobIDs, index \in Indices, r \in ResultInputs :
         CallMarkFileComplete(id, index, r)
    \/ \E id \in JobIDs, index \in Indices, msg \in Messages, r \in ResultInputs :
         CallMarkFileError(id, index, msg, r)

InitJM ==
    /\ jobs = [id \in JobIDs |-> Nil]
    /\ payloads = [a \in PayloadAddrs |-> IF a = 1 THEN [Topics |-> 1, Notes |-> ""] ELSE Nil]
    /\ held = Nil
    /\ reader = Nil
    /\ workers = <<>>
    /\ aiConfig = "vision"
    /\ documents = {}
    /\ topicsDB = {}
    /\ client = Nil
    /\ web = Nil
    /\ deck = Nil

\* Any sequence of JobManager calls.
SpecJM == InitJM /\ [][NextJM]_vars

\* Readers (GetJob) and holders of snapshots, concurrent with one writer
\* that drives slot 0 of a job through its life.
OkResult == DocumentResult(1, "a.pdf", 0, "ok", "", 1)
ErrResult == DocumentResult(0, "a.pdf", 0, FileStatusError, "", NilPtr)

NextSnap ==
    \/ \E names \in FileNameLists : CreateJob(names)
    \/ \E id \in JobIDs : CallMarkProcessing(id)
    \/ \E id \in JobIDs : CallMarkFileStarted(id, 0)
    \/ \E id \in JobIDs : CallUpdateFileProgress(id, 0, 29, 100)
    \/ \E id \in JobIDs : CallMarkFileComplete(id, 0, OkResult)
    \/ \E id \in JobIDs : CallMarkFileError(id, 0, " boom ", ErrResult)
    \/ \E id \in JobIDs : CallMarkCompleted(id)
    \/ \E id \in JobIDs : CallMarkFailed(id, " boom ")
    \/ \E id \in JobIDs : GetJobLookup(id)
    \/ GetJobCopyFiles
    \/ GetJobReturn
    \/ MutateSnapshot
    \/ MutatePayload

SpecSnap == InitJM /\ [][NextSnap]_vars

\* One slot driven with a wide range of (current, total) pairs: small values
\* around zero and values around 100.
MaxSmall == 12
PctValues == (-2..MaxSmall) \cup {29, 50, 99, 100, 101, 150}

NextPct ==
    \/ CreateJob(<<"a.pdf">>)
    \/ CallMarkFileStarted(1, 0)
    \/ \E current \in PctValues, total \in PctValues : CallUpdateFileProgress(1, 0, current, total)
    \/ CallMarkFileComplete(1, 0, OkResult)
    \/ CallMarkFileError(1, 0, " boom ", ErrResult)

SpecPct == InitJM /\ [][NextPct]_vars


(***************************************************************************)
(* Claims about the JobManager alone.                                      *)
(***************************************************************************)
TerminalFile(f) == f.Status \in {FileStatusComplete, FileStatusError}

\* C5: once a File Progress slot is `complete` or `error`, no later
\* JobManager operation changes that slot's status.
C5_TerminalSlotKeepsStatus ==
    [][\A id \in JobIDs :
         jobs[id] # Nil =>
           \A i \in 1..Len(jobs[id].Files) :
             TerminalFile(jobs[id].Files[i]) =>
               jobs'[id].Files[i].Status = jobs[id].Files[i].Status]_vars

\* C6: the job status only moves forward; once `complete` or `failed` it is
\* never `pending` or `processing` again.
C6_JobStatusMonotonic ==
    [][\A id \in JobIDs :
         (jobs[id] # Nil /\ jobs[id].Status \in {JobStatusComplete, JobStatusFailed}) =>
           jobs'[id].Status \notin {JobStatusPending, JobStatusProcessing}]_vars

\* C7: every snapshot GetJob returns equals the job's value at one single
\* instant of the call (a value the job had between two mutations).
C7_SnapshotIsOneInstant ==
    [][(reader # Nil /\ reader' = Nil) => held'.val \in reader.seen]_vars

\* What the manager's stored state says, payload pointers followed.
DerefResult(r) == IF r = Nil THEN Nil
                  ELSE [r EXCEPT !.Payload = IF r.Payload = NilPtr THEN Nil ELSE payloads[r.Payload]]

ManagerView ==
    [id \in JobIDs |->
       IF jobs[id] = Nil THEN Nil
       ELSE [jobs[id] EXCEPT
               !.Files = [i \in 1..Len(jobs[id].Files) |->
                            [jobs[id].Files[i] EXCEPT !.Result = DerefResult(jobs[id].Files[i].Result)]],
               !.Results = [i \in 1..Len(jobs[id].Results) |-> DerefResult(jobs[id].Results[i])]]]

\* C8: nothing a caller does to a snapshot it holds, or to a result it
\* passed in, changes what the manager stores (and so what a later GetJob
\* returns).
C8_CallerCannotReachManagerState ==
    [][(MutateSnapshot \/ MutatePayload) => ManagerView' = ManagerView]_vars


(***************************************************************************)
(* The upload pipeline.  A worker is the goroutine that serves one upload: *)
(* runUploadJob (mode "job", progress pushed into the JobManager) or       *)
(* handleUploadDocuments (mode "sync", progress callback nil).             *)
(***************************************************************************)
MaxWorkers == 2
\* The request and job goroutines the run was started with.
WorkerIDs == DOMAIN workers

MaxConcurrent == 10
ExamBatchSize == 8
InfoBatchSize == 2

DocExam == "exam"
DocInformation == "information"
DocTypes == {DocExam, DocInformation}

IdleWorker(pageSet) ==
    [pc |-> "idle", mode |-> "none", job |-> 0, docType |-> "", names |-> <<>>,
     idx |-> 0, doc |-> 0, pages |-> 0, tasks |-> <<>>, sem |-> 0,
     completedBatches |-> 0, topics |-> 0, saved |-> 0, results |-> <<>>,
     pageSet |-> pageSet, analyses |-> <<>>, combined |-> <<>>]

Min(a, b) == IF a < b THEN a ELSE b

BatchSize(docType) == IF docType = DocExam THEN ExamBatchSize ELSE InfoBatchSize

\* A batching loop that only emits full batches.
RECURSIVE MakeBatchesFullOnly(_, _, _)
MakeBatchesFullOnly(i, pages, batchSize) ==
    IF i + batchSize > pages THEN <<>>
    ELSE <<[start |-> i + 1, end |-> i + batchSize]>>
           \o MakeBatchesFullOnly(i + batchSize, pages, batchSize)

\* The batching loop: for i := 0; i < len(pages); i += batchSize.
RECURSIVE MakeBatches(_, _, _)
MakeBatches(i, pages, batchSize) ==
    IF i >= pages THEN <<>>
    ELSE <<[start |-> i + 1, end |-> Min(i + batchSize, pages)]>>
           \o MakeBatches(i + batchSize, pages, batchSize)

BatchesOf(W) == MakeBatches(0, W.pages, BatchSize(W.docType))

\* Percentages reported while analysing: exam 10 + 70*done/len, flashcards
\* 20 + 50*done/len (integer division).
AnalyzePct(docType, done, len) ==
    IF docType = DocExam THEN 10 + ((70 * done) \div len) ELSE 20 + ((50 * done) \div len)

SavePct(docType, i, n) ==
    IF docType = DocExam THEN 90 + ((10 * i) \div n) ELSE 80 + ((20 * i) \div n)

\* disabled(): no OpenAI client or model.
Disabled == aiConfig = "none"

\* The progress callback of runUploadJob; nil for handleUploadDocuments.
Progress(w, step, message, current, total) ==
    IF workers[w].mode = "job"
    THEN UpdateFileProgress(jobs, workers[w].job, workers[w].idx, step, message, current, total)
    ELSE jobs

\* processDocument's result value for the current file.
ResultOf(W, status, message, payload) ==
    DocumentResult(W.doc, W.names[W.idx + 1], 0, status, message, payload)

\* A run that returns at the first failed file.
AbortOnFileError == "done"

\* runUploadJob after a file failed: `continue` with the next file.
AfterFileError == "loop"

\* A run that processes a failed file a second time.
NextFileRetrying(W, result, err) ==
    [W EXCEPT !.pc = IF err = "" THEN "loop" ELSE AfterFileError,
              !.idx = IF err # "" /\ Len(W.results) <= W.idx THEN @ ELSE @ + 1,
              !.doc = 0, !.pages = 0, !.tasks = <<>>, !.sem = 0,
              !.completedBatches = 0, !.topics = 0, !.saved = 0,
              !.analyses = <<>>, !.combined = <<>>,
              !.results = Append(@, [result |-> result, err |-> err])]

\* The worker after processDocument returned (result, err) for a file.
NextFile(W, result, err) ==
    [W EXCEPT !.pc = IF err = "" THEN "loop" ELSE AfterFileError,
              !.idx = @ + 1, !.doc = 0, !.pages = 0, !.tasks = <<>>, !.sem = 0,
              !.completedBatches = 0, !.topics = 0, !.saved = 0,
              !.analyses = <<>>, !.combined = <<>>,
              !.results = Append(@, [result |-> result, err |-> err])]

\* processDocument returns an error: MarkFileError for a job, the result
\* list of the response otherwise.
FailFile(w, message, err, payload) ==
    LET W == workers[w]
        result == ResultOf(W, FileStatusError, message, payload)
    IN /\ jobs' = IF W.mode = "job"
                  THEN MarkFileError(jobs, W.job, W.idx, err, result)
                  ELSE jobs
       /\ workers' = [workers EXCEPT ![w] = NextFile(W, result, err)]

LowestIdle == CHOOSE w \in WorkerIDs :
                workers[w].pc = "idle" /\ \A v \in WorkerIDs : v < w => workers[v].pc # "idle"

\* POST /api/documents/jobs: CreateJob, `go runUploadJob`, 202 with the snapshot.
handleCreateUploadJob(docType, names) ==
    /\ Len(names) > 0
    /\ \E w \in WorkerIDs : workers[w].pc = "idle"
    /\ \E id \in IssuedIDs : jobs[id] = Nil
    /\ LET id == FreshJobID
           job == NewUploadJob(id, names)
       IN /\ jobs' = [jobs EXCEPT ![id] = job]
          /\ held' = CopyRef(clone(job))
          /\ workers' = [workers EXCEPT ![LowestIdle] =
                           [@ EXCEPT !.pc = "run", !.mode = "job", !.job = id,
                                     !.docType = docType, !.names = names]]
    /\ UNCHANGED <<payloads, reader, aiConfig, web, deck, documents, topicsDB, client>>

\* POST /api/documents: the files are processed in the request goroutine.
handleUploadDocuments(docType, names) ==
    /\ Len(names) > 0
    /\ \E w \in WorkerIDs : workers[w].pc = "idle"
    /\ workers' = [workers EXCEPT ![LowestIdle] =
                     [@ EXCEPT !.pc = "loop", !.mode = "sync",
                               !.docType = docType, !.names = names]]
    /\ UNCHANGED <<jobs, payloads, held, reader, aiConfig, web, deck, documents, topicsDB, client>>

\* runUploadJob: s.jobs.MarkProcessing(jobID)
RunStart(w) ==
    /\ workers[w].pc = "run"
    /\ jobs' = MarkProcessing(jobs, workers[w].job)
    /\ workers' = [workers EXCEPT ![w].pc = "loop"]
    /\ UNCHANGED <<payloads, held, reader, aiConfig, web, deck, documents, topicsDB, client>>

\* A loop that stops one file early.
LoopSkipsLast(W) == W.idx < Len(W.names) - 1

\* for idx, file := range files
LoopHasNext(W) == W.idx < Len(W.names)

StartFile(w) ==
    /\ workers[w].pc = "loop"
    /\ LoopHasNext(workers[w])
    /\ jobs' = IF workers[w].mode = "job"
               THEN MarkFileStarted(jobs, workers[w].job, workers[w].idx)
               ELSE jobs
    /\ workers' = [workers EXCEPT ![w].pc = "open"]
    /\ UNCHANGED <<payloads, held, reader, aiConfig, web, deck, documents, topicsDB, client>>

\* A run that fails the job when some file failed.
JobDoneFailing(table, id) ==
    IF \E i \in 1..Len(table[id].Files) : table[id].Files[i].Status = FileStatusError
    THEN MarkFailed(table, id, "file failed")
    ELSE MarkCompleted(table, id)

\* After the loop: runUploadJob marks the job; the handler writes its response.
JobDone(table, id) == MarkCompleted(table, id)

FinishRun(w) ==
    /\ workers[w].pc = "loop"
    /\ ~LoopHasNext(workers[w])
    /\ jobs' = IF workers[w].mode = "job" THEN JobDone(jobs, workers[w].job) ELSE jobs
    /\ workers' = [workers EXCEPT ![w].pc = "done"]
    /\ UNCHANGED <<payloads, held, reader, aiConfig, web, deck, documents, topicsDB, client>>


(***************************************************************************)
(* processDocument: store the upload and record the document.              *)
(***************************************************************************)
StoreErrors == {"open file", "create document"}

StoreFail(w, stage) ==
    /\ workers[w].pc = "open"
    /\ FailFile(w, "io error", stage \o ": io error", NilPtr)
    /\ UNCHANGED <<payloads, held, reader, aiConfig, web, deck, documents, topicsDB, client>>

\* documents.Create succeeded; the ingestion service reports its first step.
CreateOk(w) ==
    LET W == workers[w]
        id == Cardinality(documents) + 1
    IN /\ W.pc = "open"
       /\ documents' = documents \cup {id}
       /\ LET V == [W EXCEPT !.doc = id] IN
          IF W.docType = DocExam
          THEN /\ jobs' = Progress(w, "extract", "Starting exam topic extraction", 0, 100)
               /\ workers' = [workers EXCEPT ![w] = [V EXCEPT !.pc = "extract"]]
          ELSE /\ jobs' = Progress(w, "concepts", "Loading prior concepts", 0, 100)
               /\ workers' = [workers EXCEPT ![w] = [V EXCEPT !.pc = "concepts"]]
       /\ UNCHANGED <<payloads, held, reader, aiConfig, web, deck, topicsDB, client>>

(***************************************************************************)
(* ProcessInformationDocumentWithProgress: the context loaded before the   *)
(* extraction.                                                             *)
(***************************************************************************)
ListConceptsFail(w) ==
    /\ workers[w].pc = "concepts"
    /\ FailFile(w, "list concepts: db error", "list concepts: db error", NilPtr)
    /\ UNCHANGED <<payloads, held, reader, aiConfig, web, deck, documents, topicsDB, client>>

ListConceptsOk(w) ==
    /\ workers[w].pc = "concepts"
    /\ jobs' = Progress(w, "flashcards", "Loading existing flashcards", 2, 100)
    /\ workers' = [workers EXCEPT ![w].pc = "cards"]
    /\ UNCHANGED <<payloads, held, reader, aiConfig, web, deck, documents, topicsDB, client>>

ListCardsFail(w) ==
    /\ workers[w].pc = "cards"
    /\ FailFile(w, "list existing flashcards: db error",
                "list existing flashcards: db error", NilPtr)
    /\ UNCHANGED <<payloads, held, reader, aiConfig, web, deck, documents, topicsDB, client>>

ListCardsOk(w) ==
    /\ workers[w].pc = "cards"
    /\ jobs' = Progress(w, "extract", "Extracting flashcards from document", 5, 100)
    /\ workers' = [workers EXCEPT ![w].pc = "extract"]
    /\ UNCHANGED <<payloads, held, reader, aiConfig, web, deck, documents, topicsDB, client>>

(***************************************************************************)
(* ExtractExamTopicsWithProgress / GenerateFlashcardsWithProgress.         *)
(***************************************************************************)
ErrAIUnavailable == "openai integration is not configured"

ExtractDisabled(w) ==
    /\ workers[w].pc = "extract"
    /\ Disabled
    /\ FailFile(w, ErrAIUnavailable, ErrAIUnavailable, NilPtr)
    /\ UNCHANGED <<payloads, held, reader, aiConfig, web, deck, documents, topicsDB, client>>

RemoteErrors == {"request failed", "llm returned no choices", "unmarshal json"}

\* Without the vision client the whole PDF goes to the chat model in one call.
FallbackFail(w, msg) ==
    /\ workers[w].pc = "extract"
    /\ aiConfig = "openai"
    /\ FailFile(w, msg, msg, NilPtr)
    /\ UNCHANGED <<payloads, held, reader, aiConfig, web, deck, documents, topicsDB, client>>

\* The extraction object is allocated; ingestion reports the save stage.
Extracted(w, n) ==
    LET W == workers[w] IN
    /\ payloads' = [payloads EXCEPT ![W.doc] = [Topics |-> n, Notes |-> ""]]
    /\ jobs' = IF W.docType = DocExam
               THEN Progress(w, "save", "Saving topics to database", 90, 100)
               ELSE Progress(w, "save", "Saving flashcards to database", 80, 100)
    /\ workers' = [workers EXCEPT ![w] = [W EXCEPT !.pc = "save", !.topics = n, !.saved = 0]]

FallbackOk(w, n) ==
    /\ workers[w].pc = "extract"
    /\ aiConfig = "openai"
    /\ Extracted(w, n)
    /\ UNCHANGED <<held, reader, aiConfig, web, deck, documents, topicsDB, client>>

\* The vision path: extract...WithVisionAndProgress starts by rendering.
ExtractStart(w) ==
    /\ workers[w].pc = "extract"
    /\ aiConfig = "vision"
    /\ jobs' = Progress(w, "convert", "Converting PDF to images",
                        IF workers[w].docType = DocExam THEN 0 ELSE 10, 100)
    /\ workers' = [workers EXCEPT ![w].pc = "render"]
    /\ UNCHANGED <<payloads, held, reader, aiConfig, web, deck, documents, topicsDB, client>>

\* results := make([]result, len(batches)): every entry starts empty.  An
\* analysis text is represented by the page range of its "=== Pages a-b ==="
\* header.
NoText == [start |-> 0, end |-> 0]

RenderErrors == {"convert pdf to images: pdf has no pages",
                 "convert pdf to images: ghostscript render failed"}

RenderFail(w, msg) ==
    /\ workers[w].pc = "render"
    /\ FailFile(w, msg, msg, NilPtr)
    /\ UNCHANGED <<payloads, held, reader, aiConfig, web, deck, documents, topicsDB, client>>

\* The renderer returned p >= 1 page images: the batches are cut and one
\* goroutine per batch is started (each first waits for the semaphore).
RenderOk(w, p) ==
    LET W == workers[w]
        V == [W EXCEPT !.pages = p]
    IN /\ W.pc = "render"
       /\ p >= 1
       /\ jobs' = Progress(w, "analyze", "Analyzing " \o ToString(p) \o " pages",
                           IF W.docType = DocExam THEN 10 ELSE 20, 100)
       /\ workers' = [workers EXCEPT ![w] =
                        [V EXCEPT !.pc = "batches",
                                  !.tasks = [k \in 1..Len(BatchesOf(V)) |-> "waiting"],
                                  !.analyses = [k \in 1..Len(BatchesOf(V)) |-> NoText]]]
       /\ UNCHANGED <<payloads, held, reader, aiConfig, web, deck, documents, topicsDB, client>>


(***************************************************************************)
(* The batch goroutines of one engine run.  W.sem is the number of tokens  *)
(* in the run's own `semaphore` channel; a task is "waiting" before        *)
(* `semaphore <- struct{}{}`, "inflight" from there until the deferred     *)
(* release, then "ok" or "err".                                            *)
(***************************************************************************)
\* A semaphore with one slot too many.
CanAcquireOneMore(sem) == sem <= MaxConcurrent

CanAcquire(sem) == sem < MaxConcurrent

\* A result list filled by appending under the mutex, in order of arrival.
SlotByArrival(W, k) == W.completedBatches + 1

\* results[idx] = ...: idx is the batch index handed to the goroutine.
SlotOf(W, k) == k

\* fmt.Sprintf("=== %s ===\n%s", pageRange, analysis)
Marker(b) == [start |-> b.start, end |-> b.end]

\* for _, res := range results { pageAnalyses = append(pageAnalyses, res.analysis) }
Combine(W) == [k \in 1..Len(W.analyses) |-> W.analyses[k]]

InFlight(W) == Cardinality({k \in DOMAIN W.tasks : W.tasks[k] = "inflight"})

Range(k) == ToString(k.start) \o "-" \o ToString(k.end)

BatchStart(w, k) ==
    LET W == workers[w]
        b == BatchesOf(W)[k]
    IN /\ W.pc = "batches"
       /\ W.tasks[k] = "waiting"
       /\ CanAcquire(W.sem)
       /\ jobs' = Progress(w, "analyze", "Analyzing pages " \o Range(b),
                           AnalyzePct(W.docType, b.start - 1, W.pages), 100)
       /\ workers' = [workers EXCEPT ![w] = [W EXCEPT !.tasks[k] = "inflight", !.sem = @ + 1]]
       /\ UNCHANGED <<payloads, held, reader, aiConfig, web, deck, documents, topicsDB, client>>

BatchOk(w, k) ==
    LET W == workers[w]
        b == BatchesOf(W)[k]
    IN /\ W.pc = "batches"
       /\ W.tasks[k] = "inflight"
       /\ jobs' = Progress(w, "analyze", "Completed pages " \o Range(b),
                           AnalyzePct(W.docType, b.end, W.pages), 100)
       /\ workers' = [workers EXCEPT ![w] =
                        [W EXCEPT !.tasks[k] = "ok", !.sem = @ - 1,
                                  !.analyses[SlotOf(W, k)] = Marker(b),
                                  !.completedBatches = @ + 1]]
       /\ UNCHANGED <<payloads, held, reader, aiConfig, web, deck, documents, topicsDB, client>>

\* A failed batch that is queued again.
BatchErrRequeued(w, k) ==
    LET W == workers[w]
        b == BatchesOf(W)[k]
    IN /\ W.pc = "batches"
       /\ W.tasks[k] = "inflight"
       /\ b.start <= MaxFailPage
       /\ workers' = [workers EXCEPT ![w] = [W EXCEPT !.tasks[k] = "waiting", !.sem = @ - 1]]
       /\ UNCHANGED <<jobs, payloads, held, reader, aiConfig, web, deck, documents, topicsDB, client>>

\* AnalyzeMultipleImages returned an error (after its own retries).
BatchErr(w, k) ==
    LET W == workers[w]
        b == BatchesOf(W)[k]
    IN /\ W.pc = "batches"
       /\ W.tasks[k] = "inflight"
       /\ b.start <= MaxFailPage
       /\ workers' = [workers EXCEPT ![w] = [W EXCEPT !.tasks[k] = "err", !.sem = @ - 1]]
       /\ UNCHANGED <<jobs, payloads, held, reader, aiConfig, web, deck, documents, topicsDB, client>>

\* A wait that returns as soon as one batch has failed.
JoinedOnFirstError(W) ==
    \/ \E k \in DOMAIN W.tasks : W.tasks[k] = "err"
    \/ \A k \in DOMAIN W.tasks : W.tasks[k] \in {"ok", "err"}

\* A join that is only signalled by tasks that returned without error.
JoinedWithoutDefer(W) == \A k \in DOMAIN W.tasks : W.tasks[k] = "ok"

Joined(W) == \A k \in DOMAIN W.tasks : W.tasks[k] \in {"ok", "err"}

\* A scan that overlooks failed batches.
NoFailures(W) == {}

Failed(W) == {k \in DOMAIN W.tasks : W.tasks[k] = "err"}

\* A scan that keeps the error of the last failed batch.
LastError(W) == CHOOSE k \in Failed(W) : \A j \in Failed(W) : k >= j

\* for _, res := range results { if res.err != nil { return nil, res.err } }
FirstError(W) == CHOOSE k \in Failed(W) : \A j \in Failed(W) : k <= j

JoinErr(w) ==
    LET W == workers[w]
        msg == "analyze pages " \o Range(BatchesOf(W)[FirstError(W)])
                 \o " with vision: vision api failed"
    IN /\ W.pc = "batches"
       /\ Joined(W)
       /\ Failed(W) # {}
       /\ FailFile(w, msg, msg, NilPtr)
       /\ UNCHANGED <<payloads, held, reader, aiConfig, web, deck, documents, topicsDB, client>>

JoinOk(w) ==
    LET W == workers[w] IN
    /\ W.pc = "batches"
    /\ Joined(W)
    /\ Failed(W) = {}
    /\ jobs' = Progress(w, "synthesize", "Synthesizing",
                        IF W.docType = DocExam THEN 80 ELSE 70, 100)
    /\ workers' = [workers EXCEPT ![w] = [W EXCEPT !.pc = "synth", !.combined = Combine(W)]]
    /\ UNCHANGED <<payloads, held, reader, aiConfig, web, deck, documents, topicsDB, client>>

SynthFail(w, msg) ==
    /\ workers[w].pc = "synth"
    /\ FailFile(w, msg, msg, NilPtr)
    /\ UNCHANGED <<payloads, held, reader, aiConfig, web, deck, documents, topicsDB, client>>

SynthOk(w, n) ==
    /\ workers[w].pc = "synth"
    /\ Extracted(w, n)
    /\ UNCHANGED <<held, reader, aiConfig, web, deck, documents, topicsDB, client>>

\* A persistence loop that logs a failed write and goes on.
SaveFailIgnored(w) ==
    LET W == workers[w] IN
    /\ W.pc = "save"
    /\ W.saved < W.topics
    /\ workers' = [workers EXCEPT ![w].saved = @ + 1]
    /\ UNCHANGED <<jobs, payloads, held, reader, aiConfig, web, deck, documents, topicsDB, client>>

(***************************************************************************)
(* Persisting the extraction (the loops of Process...WithProgress).        *)
(***************************************************************************)
SaveFail(w) ==
    LET W == workers[w] IN
    /\ W.pc = "save"
    /\ W.saved < W.topics
    /\ FailFile(w, "upsert concept: db error", "upsert concept: db error", NilPtr)
    /\ UNCHANGED <<payloads, held, reader, aiConfig, web, deck, documents, topicsDB, client>>

SaveOk(w) ==
    LET W == workers[w] IN
    /\ W.pc = "save"
    /\ W.saved < W.topics
    /\ topicsDB' = topicsDB \cup {<<W.doc, W.saved + 1>>}
    /\ jobs' = Progress(w, "save", "Saved " \o ToString(W.saved + 1),
                        SavePct(W.docType, W.saved + 1, W.topics), 100)
    /\ workers' = [workers EXCEPT ![w].saved = @ + 1]
    /\ UNCHANGED <<payloads, held, reader, aiConfig, web, deck, documents, client>>

\* A concept without a name or without cards is skipped: nothing is written
\* and nothing is reported.
SaveSkip(w) ==
    LET W == workers[w] IN
    /\ W.pc = "save"
    /\ W.docType = DocInformation
    /\ W.saved < W.topics
    /\ workers' = [workers EXCEPT ![w].saved = @ + 1]
    /\ UNCHANGED <<jobs, payloads, held, reader, aiConfig, web, deck, documents, topicsDB, client>>

SaveDone(w) ==
    LET W == workers[w] IN
    /\ W.pc = "save"
    /\ W.saved = W.topics
    /\ jobs' = Progress(w, "complete", "Processing complete", 100, 100)
    /\ workers' = [workers EXCEPT ![w].pc = "finish"]
    /\ UNCHANGED <<payloads, held, reader, aiConfig, web, deck, documents, topicsDB, client>>

\* processDocument returns (result, nil): Status "ok", the extraction as Payload.
Finish(w) ==
    LET W == workers[w]
        result == ResultOf(W, "ok", "", W.doc)
    IN /\ W.pc = "finish"
       /\ jobs' = IF W.mode = "job"
                  THEN MarkFileComplete(jobs, W.job, W.idx, result)
                  ELSE jobs
       /\ workers' = [workers EXCEPT ![w] = NextFile(W, result, "")]
       /\ UNCHANGED <<payloads, held, reader, aiConfig, web, deck, documents, topicsDB, client>>


(***************************************************************************)
(* Specifications of the upload pipeline.                                  *)
(***************************************************************************)
AIConfigs == {"none", "openai", "vision"}

InitPipeline(pool, configs) ==
    /\ jobs = [id \in JobIDs |-> Nil]
    /\ payloads = [a \in PayloadAddrs |-> Nil]
    /\ held = Nil
    /\ reader = Nil
    /\ workers = pool
    /\ aiConfig \in configs
    /\ documents = {}
    /\ topicsDB = {}
    /\ client = Nil
    /\ web = Nil
    /\ deck = Nil

\* The steps of one upload goroutine, whichever handler started it.
FileStep(w) ==
    \/ StartFile(w)
    \/ FinishRun(w)
    \/ \E stage \in StoreErrors : StoreFail(w, stage)
    \/ CreateOk(w)
    \/ ListConceptsFail(w)
    \/ ListConceptsOk(w)
    \/ ListCardsFail(w)
    \/ ListCardsOk(w)

VisionStep(w) ==
    \/ ExtractStart(w)
    \/ \E msg \in RenderErrors : RenderFail(w, msg)
    \/ \E p \in workers[w].pageSet : RenderOk(w, p)
    \/ \E k \in DOMAIN workers[w].tasks : BatchStart(w, k)
    \/ \E k \in DOMAIN workers[w].tasks : BatchOk(w, k)
    \/ \E k \in DOMAIN workers[w].tasks : BatchErr(w, k)
    \/ JoinErr(w)
    \/ JoinOk(w)
    \/ \E msg \in RemoteErrors : SynthFail(w, msg)
    \/ \E n \in 0..MaxTopics : SynthOk(w, n)

SaveStep(w) ==
    \/ SaveFail(w)
    \/ SaveOk(w)
    \/ SaveSkip(w)
    \/ SaveDone(w)
    \/ Finish(w)

OtherConfigStep(w) ==
    \/ ExtractDisabled(w)
    \/ \E msg \in RemoteErrors : FallbackFail(w, msg)
    \/ \E n \in 0..MaxTopics : FallbackOk(w, n)

\* Background jobs: POST /api/documents/jobs and the runUploadJob goroutine.
JobStep(w) == RunStart(w) \/ FileStep(w) \/ OtherConfigStep(w) \/ VisionStep(w) \/ SaveStep(w)

Init == InitPipeline([w \in 1..MaxJobs |-> IdleWorker(1..MaxPages)], AIConfigs)

Next ==
    \/ \E docType \in DocTypes, names \in FileNameLists : handleCreateUploadJob(docType, names)
    \/ \E w \in WorkerIDs : RunStart(w)
    \/ \E w \in WorkerIDs : StartFile(w)
    \/ \E w \in WorkerIDs : FinishRun(w)
    \/ \E w \in WorkerIDs : \E stage \in StoreErrors : StoreFail(w, stage)
    \/ \E w \in WorkerIDs : CreateOk(w)
    \/ \E w \in WorkerIDs : ListConceptsFail(w)
    \/ \E w \in WorkerIDs : ListConceptsOk(w)
    \/ \E w \in WorkerIDs : ListCardsFail(w)
    \/ \E w \in WorkerIDs : ListCardsOk(w)
    \/ \E w \in WorkerIDs : ExtractDisabled(w)
    \/ \E w \in WorkerIDs : \E msg \in RemoteErrors : FallbackFail(w, msg)
    \/ \E w \in WorkerIDs : \E n \in 0..MaxTopics : FallbackOk(w, n)
    \/ \E w \in WorkerIDs : ExtractStart(w)
    \/ \E w \in WorkerIDs : \E msg \in RenderErrors : RenderFail(w, msg)
    \/ \E w \in WorkerIDs : \E p \in workers[w].pageSet : RenderOk(w, p)
    \/ \E w \in WorkerIDs : \E k \in DOMAIN workers[w].tasks : BatchStart(w, k)
    \/ \E w \in WorkerIDs : \E k \in DOMAIN workers[w].tasks : BatchOk(w, k)
    \/ \E w \in WorkerIDs : \E k \in DOMAIN workers[w].tasks : BatchErr(w, k)
    \/ \E w \in WorkerIDs : JoinErr(w)
    \/ \E w \in WorkerIDs : JoinOk(w)
    \/ \E w \in WorkerIDs : \E msg \in RemoteErrors : SynthFail(w, msg)
    \/ \E w \in WorkerIDs : \E n \in 0..MaxTopics : SynthOk(w, n)
    \/ \E w \in WorkerIDs : SaveFail(w)
    \/ \E w \in WorkerIDs : SaveOk(w)
    \/ \E w \in WorkerIDs : SaveSkip(w)
    \/ \E w \in WorkerIDs : SaveDone(w)
    \/ \E w \in WorkerIDs : Finish(w)

Spec == Init /\ [][Next]_vars

\* Every started goroutine keeps running, and every call it waits on returns
\* (the remote calls carry timeouts).
FairSpec == Spec /\ \A w \in 1..MaxJobs : WF_vars(JobStep(w))


(***************************************************************************)
(* Engine runs started by concurrent POST /api/documents requests: the     *)
(* callback is nil, so only the engine's own state moves.                  *)
(***************************************************************************)
CapPages == 21
CapPagesA == 11
CapPagesB == 9

UploadNext(docTypes) ==
    \/ \E docType \in docTypes : handleUploadDocuments(docType, <<"a.pdf">>)
    \/ \E w \in WorkerIDs : StartFile(w)
    \/ \E w \in WorkerIDs : FinishRun(w)
    \/ \E w \in WorkerIDs : \E stage \in StoreErrors : StoreFail(w, stage)
    \/ \E w \in WorkerIDs : CreateOk(w)
    \/ \E w \in WorkerIDs : ListConceptsFail(w)
    \/ \E w \in WorkerIDs : ListConceptsOk(w)
    \/ \E w \in WorkerIDs : ListCardsFail(w)
    \/ \E w \in WorkerIDs : ListCardsOk(w)
    \/ \E w \in WorkerIDs : ExtractStart(w)
    \/ \E w \in WorkerIDs : \E msg \in RenderErrors : RenderFail(w, msg)
    \/ \E w \in WorkerIDs : \E p \in workers[w].pageSet : RenderOk(w, p)
    \/ \E w \in WorkerIDs : \E k \in DOMAIN workers[w].tasks : BatchStart(w, k)
    \/ \E w \in WorkerIDs : \E k \in DOMAIN workers[w].tasks : BatchOk(w, k)
    \/ \E w \in WorkerIDs : \E k \in DOMAIN workers[w].tasks : BatchErr(w, k)
    \/ \E w \in WorkerIDs : JoinErr(w)
    \/ \E w \in WorkerIDs : JoinOk(w)
    \/ \E w \in WorkerIDs : \E msg \in RemoteErrors : SynthFail(w, msg)
    \/ \E w \in WorkerIDs : \E n \in 0..MaxTopics : SynthOk(w, n)
    \/ \E w \in WorkerIDs : SaveFail(w)
    \/ \E w \in WorkerIDs : SaveOk(w)
    \/ \E w \in WorkerIDs : SaveSkip(w)
    \/ \E w \in WorkerIDs : SaveDone(w)
    \/ \E w \in WorkerIDs : Finish(w)

\* One request whose document has CapPages pages.
InitCap == InitPipeline([w \in 1..1 |-> IdleWorker({CapPages})], {"vision"})
NextCap == UploadNext(DocTypes)
SpecCap == InitCap /\ [][NextCap]_vars

\* Two requests at the same time, documents of CapPagesA and CapPagesB pages.
InitCap2 ==
    InitPipeline([w \in 1..MaxWorkers |-> IdleWorker(IF w = 1 THEN {CapPagesA} ELSE {CapPagesB})],
                 {"vision"})
NextCap2 == UploadNext({DocInformation})
SpecCap2 == InitCap2 /\ [][NextCap2]_vars


(***************************************************************************)
(* Properties of the upload pipeline.                                      *)
(***************************************************************************)
JobRuns == {w \in WorkerIDs : workers[w].mode = "job"}

FinishedRuns == {w \in JobRuns : workers[w].pc = "done"}

(***************************************************************************)
(* The batching loop on its own: an engine run that has rendered P pages   *)
(* and cuts them with batch size B.                                        *)
(***************************************************************************)
MaxBatchPages == 17
MaxBatchSize == 8

CutBatches(w) ==
    /\ workers[w].pc = "rendered"
    /\ workers' = [workers EXCEPT ![w] =
                     [@ EXCEPT !.pc = "cut",
                               !.batches = MakeBatches(0, workers[w].pages,
                                                       workers[w].batchSize)]]
    /\ UNCHANGED <<jobs, payloads, held, reader, aiConfig, web, deck, documents, topicsDB, client>>

InitBatch ==
    \E p \in 1..MaxBatchPages, b \in 1..MaxBatchSize :
      InitPipeline(<<[pc |-> "rendered", pages |-> p, batchSize |-> b, batches |-> <<>>]>>,
                   {"vision"})

NextBatch == \E w \in WorkerIDs : CutBatches(w)

SpecBatch == InitBatch /\ [][NextBatch]_vars

\* C1: if a job driven by runUploadJob has status `complete`, every File
\* Progress slot of it is `complete` or `error`.
C1_CompleteMeansAllTerminal ==
    \A id \in IssuedIDs :
      (jobs[id] # Nil /\ jobs[id].Status = JobStatusComplete) =>
        \A i \in 1..Len(jobs[id].Files) : TerminalFile(jobs[id].Files[i])

C1_Witness ==
    /\ jobs[1] # Nil
    /\ jobs[1].Status = JobStatusComplete
    /\ Len(jobs[1].Files) = MaxFiles
    /\ \A i \in 1..MaxFiles : jobs[1].Files[i].Status = FileStatusComplete

\* C2: a file's terminal error does not abort its siblings: when the run is
\* over every file was processed, a failed file's slot is `error` and carries
\* that file's message, a successful file's slot is `complete` with a
\* non-null Document Result.
C2_FileErrorsStayLocal ==
    \A w \in FinishedRuns :
      LET W == workers[w]
          job == jobs[W.job]
      IN /\ Len(W.results) = Len(job.Files)
         /\ \A i \in 1..Len(job.Files) :
              IF W.results[i].err # ""
              THEN /\ job.Files[i].Status = FileStatusError
                   /\ job.Files[i].Message = W.results[i].err
                   /\ job.Files[i].Error = W.results[i].err
              ELSE /\ job.Files[i].Status = FileStatusComplete
                   /\ job.Files[i].Result # Nil

C2_Witness ==
    /\ FinishedRuns # {}
    /\ jobs[1].Status = JobStatusComplete
    /\ Len(jobs[1].Files) = 2
    /\ jobs[1].Files[1].Status = FileStatusError
    /\ jobs[1].Files[1].Message = "convert pdf to images: pdf has no pages"
    /\ jobs[1].Files[2].Status = FileStatusComplete
    /\ jobs[1].Files[2].Result # Nil

\* C3: no mix of per-file outcomes makes the job `failed`: the status is
\* never `failed`, and once the run is over it is `complete`.
C3_FileErrorsNeverFailJob ==
    /\ \A id \in IssuedIDs : jobs[id] # Nil => jobs[id].Status # JobStatusFailed
    /\ \A w \in FinishedRuns : jobs[workers[w].job].Status = JobStatusComplete

C3_Witness ==
    /\ FinishedRuns # {}
    /\ jobs[1].Status = JobStatusComplete
    /\ Len(jobs[1].Files) = MaxFiles
    /\ \A i \in 1..MaxFiles : jobs[1].Files[i].Status = FileStatusError

C9_RunCapTen == \A w \in WorkerIDs : InFlight(workers[w]) <= 10

\* Ten calls in flight and an eleventh batch kept waiting.
C9_Witness ==
    \E w \in WorkerIDs :
      /\ InFlight(workers[w]) = 10
      /\ \E k \in DOMAIN workers[w].tasks : workers[w].tasks[k] = "waiting"

CallsInFlight ==
    Cardinality({wk \in UNION {{<<w, k>> : k \in DOMAIN workers[w].tasks} : w \in WorkerIDs} :
                   workers[wk[1]].tasks[wk[2]] = "inflight"})

\* C10: across the whole process at most 10 Analysis Client calls are in
\* flight, whatever the number of engine runs.
C10_ProcessCapTen == CallsInFlight <= 10


(***************************************************************************)
(* ZAIVisionService.AnalyzeMultipleImages: one call, followed attempt by   *)
(* attempt.  The remote is a stub that answers its i-th request with       *)
(* script[i]; status 0 stands for a transport error (no HTTP response).    *)
(***************************************************************************)
MaxRetries == 2

Statuses == {0, 200, 401, 429, 500, 503}

\* The body of a 200 reply: not JSON, JSON without choices, or JSON whose
\* first choice carries the content; "-" where the body plays no part.
Bodies == {"-", "not json", "no choices", "json"}

\* Status 0 stands for httpClient.Do returning an error (connection failure,
\* deadline exceeded).  Only a 200 reply with a JSON body carries a completion.
Responses == {r \in [status : Statuses, body : Bodies, content : {"", "analysis"}] :
                /\ (r.status = 200) <=> (r.body # "-")
                /\ r.content # "" => r.body = "json"}

\* What the stub is set up to answer: one canned reply per possible request.
Scripts == [1..(MaxRetries + 1) -> Responses]

\* A retry loop without the extra attempt.
LoopStopsEarly(attempt) == attempt < MaxRetries

\* for attempt := 0; attempt <= maxRetries; attempt++
LoopGoesOn(attempt) == attempt <= MaxRetries

\* A client that retries every failure.
NoTerminalStatus(status) == FALSE

\* if resp.StatusCode >= 400 && resp.StatusCode < 500 { return "", lastErr }
IsClientError(status) == status >= 400 /\ status < 500

ClientCall(script) ==
    /\ client = Nil
    /\ client' = [pc |-> "do", attempt |-> 0, script |-> script, calls |-> 0,
                  attempts |-> 0, waits |-> 0, slept |-> 0, cancelled |-> FALSE,
                  lastErr |-> "", text |-> "", err |-> ""]
    /\ UNCHANGED <<jmVars, workers, aiConfig, web, deck, documents, topicsDB>>

\* A loop that reports the first failure instead of the last.
ContinueKeepingFirst(c, lastErr) ==
    LET cause == IF c.lastErr = "" THEN lastErr ELSE c.lastErr IN
    IF LoopGoesOn(c.attempt + 1)
    THEN [c EXCEPT !.pc = "sleep", !.attempt = @ + 1, !.lastErr = cause]
    ELSE [c EXCEPT !.pc = "done", !.attempt = @ + 1, !.lastErr = cause,
                   !.err = "vision api failed after " \o ToString(MaxRetries + 1)
                             \o " attempts: " \o cause]

\* `continue`: attempt++, then the loop condition; after the loop the last
\* error is returned wrapped.
Continue(c, lastErr) ==
    IF LoopGoesOn(c.attempt + 1)
    THEN [c EXCEPT !.pc = "sleep", !.attempt = @ + 1, !.lastErr = lastErr]
    ELSE [c EXCEPT !.pc = "done", !.attempt = @ + 1, !.lastErr = lastErr,
                   !.err = "vision api failed after " \o ToString(MaxRetries + 1)
                             \o " attempts: " \o lastErr]

\* What one answered request makes of the call.
Answered(c, resp) ==
    LET statusErr == "vision api error: status=" \o ToString(resp.status) IN
    IF resp.status = 0 THEN Continue(c, "execute vision request: connection failed")
    ELSE IF resp.status # 200
         THEN IF IsClientError(resp.status)
              THEN [c EXCEPT !.pc = "done", !.lastErr = statusErr, !.err = statusErr]
              ELSE Continue(c, statusErr)
         ELSE IF resp.body = "not json"
              THEN Continue(c, "unmarshal vision response")
              ELSE IF resp.body = "no choices"
                   THEN Continue(c, "vision api returned no choices")
                   ELSE IF resp.content = ""
                        THEN Continue(c, "vision api returned empty content")
                        ELSE [c EXCEPT !.pc = "done", !.text = resp.content]

\* httpClient.Do: with a cancelled context it fails without reaching the
\* remote; otherwise the remote answers the request.
ClientDo ==
    /\ client # Nil
    /\ client.pc = "do"
    /\ client' = IF client.cancelled
                 THEN Continue([client EXCEPT !.attempts = @ + 1],
                               "execute vision request: context canceled")
                 ELSE Answered([client EXCEPT !.attempts = @ + 1, !.calls = @ + 1],
                               client.script[client.calls + 1])
    /\ UNCHANGED <<jmVars, workers, aiConfig, web, deck, documents, topicsDB>>

\* time.Sleep(time.Duration(attempt) * 2 * time.Second)
ClientSleep ==
    /\ client # Nil
    /\ client.pc = "sleep"
    /\ client' = [client EXCEPT !.pc = "do", !.waits = @ + 1, !.slept = @ + 2 * client.attempt]
    /\ UNCHANGED <<jmVars, workers, aiConfig, web, deck, documents, topicsDB>>

\* The caller's context is cancelled while the call is running.
ClientCancel ==
    /\ client # Nil
    /\ client.pc # "done"
    /\ ~client.cancelled
    /\ client' = [client EXCEPT !.cancelled = TRUE]
    /\ UNCHANGED <<jmVars, workers, aiConfig, web, deck, documents, topicsDB>>

InitClient == InitPipeline(<<>>, {"vision"})

NextClient ==
    \/ \E script \in Scripts : ClientCall(script)
    \/ ClientDo
    \/ ClientSleep
    \/ ClientCancel

SpecClient == InitClient /\ [][NextClient]_vars

ServerError(resp) == resp.status >= 500

Completion(resp) == resp.status = 200 /\ resp.content # ""

\* The stub fails k times with a 5xx and then returns a completion.
FailsThenSucceeds(script, k) ==
    /\ \A i \in 1..k : ServerError(script[i])
    /\ Completion(script[k + 1])

\* C12: if the remote fails with a 5xx k <= 2 times and then returns a
\* non-empty completion, the call returns that text and the remote was
\* called exactly k + 1 times (context not cancelled).
C12_RetriesUntilSuccess ==
    (client # Nil /\ ~client.cancelled) =>
      \A k \in 0..MaxRetries :
        FailsThenSucceeds(client.script, k) =>
          /\ client.calls <= k + 1
          /\ client.pc = "done" =>
               /\ client.err = ""
               /\ client.text = client.script[k + 1].content
               /\ client.calls = k + 1

\* Two 500s, then success: 3 calls.
C12_Witness ==
    /\ client # Nil
    /\ client.pc = "done"
    /\ client.script[1].status = 500
    /\ client.script[2].status = 500
    /\ Completion(client.script[3])
    /\ client.calls = 3
    /\ client.text = "analysis"

\* C13: a 4xx answer ends the call at once with an error: it is the last
\* request the remote receives.
C13_ClientErrorIsTerminal ==
    client # Nil =>
      \A i \in 1..client.calls :
        (client.script[i].status \in 400..499) =>
          /\ client.pc = "done"
          /\ client.calls = i
          /\ client.err # ""
          /\ client.text = ""

\* A remote that always answers 401 was called once.
C13_Witness ==
    /\ client # Nil
    /\ \A i \in 1..(MaxRetries + 1) : client.script[i].status = 401
    /\ client.pc = "done"
    /\ client.calls = 1
    /\ client.err = "vision api error: status=401"

\* C14: once the context is cancelled, the call sends no further request
\* and starts no further backoff wait.
C14_CancelStopsAttempts ==
    [][(client # Nil /\ client.cancelled) =>
         (client'.calls = client.calls /\ client'.waits = client.waits)]_vars

\* C11: the combined analysis text is the batch texts in batch-index order,
\* with page-range markers strictly increasing, whatever the order in which
\* the batch calls returned: each returned batch's text sits in its own slot
\* of the result list, and the join concatenates the slots in index order.
C11_CombinedInPageOrder ==
    \A w \in WorkerIDs :
      LET W == workers[w] IN
      /\ W.pc = "batches" =>
           \A k \in DOMAIN W.tasks :
             W.analyses[k] = IF W.tasks[k] = "ok" THEN Marker(BatchesOf(W)[k]) ELSE NoText
      /\ W.pc = "synth" =>
           /\ Len(W.combined) = Len(BatchesOf(W))
           /\ \A k \in DOMAIN W.combined : W.combined[k] = Marker(BatchesOf(W)[k])
           /\ \A i, j \in DOMAIN W.combined : i < j => W.combined[i].end < W.combined[j].start

\* The last batch returned before the first one did.
C11_Witness ==
    \E w \in WorkerIDs :
      LET W == workers[w] IN
      /\ W.pc = "batches"
      /\ Len(W.tasks) = 11
      /\ W.tasks[1] = "inflight"
      /\ W.tasks[11] = "ok"
      /\ W.analyses[11] = [start |-> 21, end |-> 21]


\* C15: while a file is being processed the progress pushed into its slot
\* (current, and the derived percent) never decreases, and a slot that
\* completed shows current = total.
C15_ProgressNeverDecreases ==
    [][\A id \in IssuedIDs :
         jobs[id] # Nil =>
           \A i \in 1..Len(jobs[id].Files) :
             /\ (jobs[id].Files[i].Status = FileStatusProcessing
                 /\ jobs'[id].Files[i].Status = FileStatusProcessing) =>
                  /\ jobs'[id].Files[i].Current >= jobs[id].Files[i].Current
                  /\ jobs'[id].Files[i].Percent >= jobs[id].Files[i].Percent
             /\ jobs'[id].Files[i].Status = FileStatusComplete =>
                  jobs'[id].Files[i].Current = jobs'[id].Files[i].Total]_vars


\* C16: after every JobManager operation, whatever integers were passed to
\* UpdateFileProgress, each slot's percent is within 0..100.
C16_PercentInRange ==
    \A id \in JobIDs :
      jobs[id] # Nil =>
        \A i \in 1..Len(jobs[id].Files) :
          jobs[id].Files[i].Percent >= 0 /\ jobs[id].Files[i].Percent <= 100

\* A slot that was given current = 150 with a negative total.
C16_Witness ==
    /\ jobs[1] # Nil
    /\ jobs[1].Files[1].Current = 150
    /\ jobs[1].Files[1].Total = -2
    /\ jobs[1].Files[1].Percent = 100


\* C17: CreateJob with N file names returns a snapshot with exactly N slots
\* in submission order: slot i has index i, the i-th name, status `pending`
\* and zero counters; the job status is `pending`.
C17_CreateJobSnapshot ==
    [][\A names \in FileNameLists :
         CreateJob(names) =>
           LET snap == held'.val IN
           /\ snap.Status = JobStatusPending
           /\ Len(snap.Files) = Len(names)
           /\ \A i \in 1..Len(names) :
                /\ snap.Files[i].Index = i - 1
                /\ snap.Files[i].Name = names[i]
                /\ snap.Files[i].Status = FileStatusPending
                /\ snap.Files[i].Current = 0
                /\ snap.Files[i].Total = 0
                /\ snap.Files[i].Percent = 0]_vars

\* CreateJob(["a.pdf", "b.pdf"]) has just returned.
C17_Witness ==
    /\ held # Nil
    /\ jobs[1] # Nil
    /\ jobs[1].UpdatedAt = 0
    /\ Len(held.val.Files) = 2
    /\ held.val.Files[1].Name = "a.pdf"
    /\ held.val.Files[2].Name = "b.pdf"


\* C18: whatever JobManager operations follow, with any index, the number
\* of File Progress slots of a job stays what it was at creation.
C18_SlotCountFixed ==
    [][\A id \in JobIDs :
         jobs[id] # Nil =>
           /\ Len(jobs'[id].Files) = Len(jobs[id].Files)
           /\ \A i \in 1..Len(jobs[id].Files) :
                /\ jobs'[id].Files[i].Index = jobs[id].Files[i].Index
                /\ jobs'[id].Files[i].Name = jobs[id].Files[i].Name]_vars

\* A one-file job on which MarkFileComplete or MarkFileError was called with
\* an index that names no slot: a result was recorded, the slot is untouched.
C18_Witness ==
    /\ jobs[1] # Nil
    /\ Len(jobs[1].Files) = 1
    /\ jobs[1].Files[1].Status = FileStatusPending
    /\ jobs[1].UpdatedAt = MaxClock
    /\ Len(jobs[1].Results) = 1

SameDocument(r, q) ==
    r.DocumentID = q.DocumentID /\ r.Name = q.Name /\ r.Pages = q.Pages /\ r.Payload = q.Payload

\* C19: the result sequence is append-only and completion-ordered: every
\* step keeps the earlier entries as they are; MarkFileComplete and
\* MarkFileError add exactly one entry at the end; and when a slot becomes
\* terminal the entry just added is that slot's result.
C19_ResultsAppendOnly ==
    [][\A id \in JobIDs :
         jobs[id] # Nil =>
           LET old == jobs[id].Results
               new == jobs'[id].Results
               added == Len(new) = Len(old) + 1 /\ SubSeq(new, 1, Len(old)) = old
           IN /\ new = old \/ added
              /\ \A index \in Indices, r \in ResultInputs :
                   CallMarkFileComplete(id, index, r) => new = Append(old, r)
              /\ \A index \in Indices, msg \in Messages, r \in ResultInputs :
                   CallMarkFileError(id, index, msg, r) =>
                     /\ added
                     /\ SameDocument(new[Len(new)], r)
                     /\ new[Len(new)].Status = FileStatusError
              /\ \A i \in 1..Len(jobs[id].Files) :
                   (jobs'[id].Files[i] # jobs[id].Files[i] /\ TerminalFile(jobs'[id].Files[i])) =>
                     /\ added
                     /\ SameDocument(new[Len(new)], jobs'[id].Files[i].Result)]_vars

\* The second file finished first: its result is the first entry.
C19_Witness ==
    /\ jobs[1] # Nil
    /\ Len(jobs[1].Files) = 2
    /\ Len(jobs[1].Results) = 2
    /\ jobs[1].Files[2].Status = FileStatusError
    /\ jobs[1].Files[1].Status = FileStatusComplete
    /\ jobs[1].Results[1].DocumentID = 2
    /\ jobs[1].Results[2].DocumentID = 1


\* Any mutating JobManager call on job id.
MutatorCall(id) ==
    \/ CallMarkProcessing(id)
    \/ CallMarkCompleted(id)
    \/ \E msg \in Messages : CallMarkFailed(id, msg)
    \/ \E index \in Indices : CallMarkFileStarted(id, index)
    \/ \E index \in Indices, p \in ProgressInputs : CallUpdateFileProgress(id, index, p[1], p[2])
    \/ \E index \in Indices, r \in ResultInputs : CallMarkFileComplete(id, index, r)
    \/ \E index \in Indices, msg \in Messages, r \in ResultInputs :
         CallMarkFileError(id, index, msg, r)

\* C20: with an unknown job identifier every mutating operation leaves the
\* whole job table as it is, and GetJob returns not-found.
C20_UnknownJobIsNoOp ==
    [][\A id \in JobIDs :
         jobs[id] = Nil =>
           /\ MutatorCall(id) => jobs' = jobs
           /\ GetJobLookup(id) => (held' = NotFound /\ reader' = Nil /\ jobs' = jobs)]_vars

\* GetJob was called with an identifier that was never issued, while a job
\* exists, and returned not-found.
C20_Witness ==
    /\ held = NotFound
    /\ jobs[0] = Nil
    /\ jobs[1] # Nil

\* Any step of a GetJob call.
GetJobStep ==
    \/ \E id \in JobIDs : GetJobLookup(id)
    \/ GetJobCopyFiles
    \/ GetJobReturn

\* The caller holds the snapshot an earlier call returned for the job now
\* being read, and the job was not mutated since that snapshot was taken
\* nor while the present call ran.
NoMutationBetween ==
    /\ reader # Nil
    /\ IsRef(held)
    /\ ~held.live
    /\ held.id = reader.id
    /\ held.val = clone(jobs[reader.id])
    /\ reader.seen = {jobs[reader.id]}

\* C21: two GetJob calls on one job with no mutation in between return
\* structurally identical snapshots, and no step of GetJob changes the job
\* table or a payload (the update timestamp included).
C21_GetJobIdempotent ==
    [][/\ GetJobStep => (jobs' = jobs /\ payloads' = payloads)
       /\ (GetJobReturn /\ NoMutationBetween) => held' = held]_vars

\* A second GetJob is about to return on a job that was mutated after its
\* creation, while the caller still holds the snapshot of the first GetJob.
C21_Witness ==
    /\ NoMutationBetween
    /\ reader.pc = "results"
    /\ jobs[reader.id].UpdatedAt > 0
    /\ Len(jobs[reader.id].Results) > 0

\* C22: with the AI integration unconfigured a job submission creates no
\* job record and stores no document.
C22_ConfigErrorBeforeJob ==
    Disabled => /\ \A id \in JobIDs : jobs[id] = Nil
                /\ documents = {}

\* C23: every file of a job has its own task, so a file that has not started
\* never waits for another file: while one slot of a job is processing, each
\* pending slot of the job can be started by the next step, and the two are
\* then processing at the same time.
C23_FilesStartIndependently ==
    \A id \in IssuedIDs :
      jobs[id] # Nil =>
        \A i, j \in 1..Len(jobs[id].Files) :
          (/\ jobs[id].Files[j].Status = FileStatusProcessing
           /\ jobs[id].Files[i].Status = FileStatusPending) =>
            ENABLED (/\ Next
                     /\ jobs'[id].Files[i].Status = FileStatusProcessing
                     /\ jobs'[id].Files[j].Status = FileStatusProcessing)

\* C24: when a batch of a run failed, the run ends only after every batch
\* task has joined, with the error of the lowest-indexed failed batch, with
\* no combined text and no payload, and without entering synthesis.
C24_LowestFailedBatchWins ==
    [][\A w \in WorkerIDs :
         LET W == workers[w]
             V == workers'[w]
             lowest == CHOOSE k \in Failed(W) : \A j \in Failed(W) : k <= j
         IN (W.pc = "batches" /\ Failed(W) # {} /\ V.pc # "batches") =>
              /\ Joined(W)
              /\ V.pc \notin {"synth", "save", "finish"}
              /\ V.combined = <<>>
              /\ Len(V.results) = Len(W.results) + 1
              /\ LET r == V.results[Len(V.results)] IN
                   /\ r.err = "analyze pages " \o Range(BatchesOf(W)[lowest])
                                \o " with vision: vision api failed"
                   /\ r.result.Status = FileStatusError
                   /\ r.result.Payload = NilPtr]_vars

\* Every batch task of a run has joined and two of them failed: the run is
\* about to return.
C24_Witness ==
    \E w \in WorkerIDs :
      /\ workers[w].pc = "batches"
      /\ Joined(workers[w])
      /\ Cardinality(Failed(workers[w])) >= 2

\* C25: P >= 1 pages cut with batch size B give exactly ceil(P/B) batches;
\* batch k covers pages (k-1)*B+1 .. min(k*B, P); the batches are contiguous,
\* in page order, of size 1..B, and every page lies in exactly one of them.
C25_BatchesPartitionPages ==
    \A w \in WorkerIDs :
      LET W == workers[w]
          P == W.pages
          B == W.batchSize
          bs == W.batches
      IN W.pc = "cut" =>
           /\ Len(bs) * B >= P
           /\ (Len(bs) - 1) * B < P
           /\ \A k \in 1..Len(bs) :
                /\ bs[k].start = (k - 1) * B + 1
                /\ bs[k].end = IF k * B < P THEN k * B ELSE P
                /\ bs[k].end - bs[k].start + 1 \in 1..B
                /\ k > 1 => bs[k].start = bs[k - 1].end + 1
           /\ \A page \in 1..P :
                Cardinality({k \in 1..Len(bs) : bs[k].start <= page /\ page <= bs[k].end}) = 1

\* Ten pages were cut with batch size 4 into three batches, the last one short.
C25_Witness ==
    \E w \in WorkerIDs :
      /\ workers[w].pc = "cut"
      /\ workers[w].pages = 10
      /\ workers[w].batchSize = 4
      /\ Len(workers[w].batches) = 3
      /\ workers[w].batches[3] = [start |-> 9, end |-> 10]

\* A reply after which the loop goes on: anything but a completion or a 4xx.
Retryable(resp) == ~Completion(resp) /\ ~(resp.status \in 400..499)

\* The cause the client records for a failed attempt.
CauseOf(resp) ==
    CASE resp.status = 0 -> "execute vision request: connection failed"
      [] resp.status \notin {0, 200} -> "vision api error: status=" \o ToString(resp.status)
      [] resp.body = "not json" -> "unmarshal vision response"
      [] resp.body = "no choices" -> "vision api returned no choices"
      [] OTHER -> "vision api returned empty content"

\* C26: when every attempt fails with a failure other than a 4xx, the call
\* makes exactly 3 attempts and returns an error wrapping the cause of the
\* last one; and no call returns success with an empty text.
C26_ExhaustedRetriesWrapLastCause ==
    (client # Nil /\ client.pc = "done") =>
      /\ client.err = "" => client.text # ""
      /\ (\A i \in 1..(MaxRetries + 1) : Retryable(client.script[i])) =>
           /\ client.attempts = 3
           /\ client.text = ""
           /\ ~client.cancelled =>
                /\ client.calls = 3
                /\ client.err = "vision api failed after 3 attempts: "
                                  \o CauseOf(client.script[3])

\* A 503, then a body that is not JSON, then an empty completion: the call
\* ended after three requests with the last cause.
C26_Witness ==
    /\ client # Nil
    /\ client.pc = "done"
    /\ ~client.cancelled
    /\ client.script[1].status = 503
    /\ client.script[2].body = "not json"
    /\ client.script[3] = [status |-> 200, body |-> "json", content |-> ""]
    /\ client.calls = 3
    /\ client.err = "vision api failed after 3 attempts: vision api returned empty content"

\* The position of a file in processDocument, as the stage it is in: 1 store
\* and record, 2 preparation (prior concepts and cards), 3 render, 4 analyze,
\* 5 synthesize, 6 persist, 7 the result is returned.
StageOf(pc) ==
    CASE pc = "open" -> 1
      [] pc \in {"concepts", "cards", "extract"} -> 2
      [] pc = "render" -> 3
      [] pc = "batches" -> 4
      [] pc = "synth" -> 5
      [] pc = "save" -> 6
      [] pc = "finish" -> 7
      [] OTHER -> 0

\* The errors processDocument returns when the stage at pc fails.
ErrorsOfStage(W, pc) ==
    CASE pc = "open" -> {stage \o ": io error" : stage \in StoreErrors}
      [] pc = "concepts" -> {"list concepts: db error"}
      [] pc = "cards" -> {"list existing flashcards: db error"}
      [] pc = "render" -> RenderErrors
      [] pc = "batches" -> {"analyze pages " \o Range(BatchesOf(W)[k])
                              \o " with vision: vision api failed" : k \in DOMAIN W.tasks}
      [] pc = "synth" -> RemoteErrors
      [] pc = "save" -> {"upsert concept: db error"}
      [] OTHER -> {}

C28_CompleteOnlyAfterPersistence ==
    [][/\ \A w \in JobRuns :
            LET W == workers[w]
                V == workers'[w]
            IN W.idx < Len(W.names) =>
                 LET old == jobs[W.job].Files[W.idx + 1]
                     new == jobs'[W.job].Files[W.idx + 1]
                 IN /\ (new.Status = FileStatusComplete /\ old.Status # FileStatusComplete) =>
                         /\ W.pc = "finish"
                         /\ W.saved = W.topics
                         /\ old.Step = "complete"
                         /\ W.docType = DocExam =>
                              \A i \in 1..W.topics : <<W.doc, i>> \in topicsDB
                    /\ (new.Step = "complete" /\ old.Step # "complete") =>
                         (W.pc = "save" /\ W.saved = W.topics)
                    /\ (W.pc = "save" /\ V.idx # W.idx) =>
                         /\ new.Status = FileStatusError
                         /\ new.Step # "complete"
                         /\ new.Error = "upsert concept: db error"
                         /\ V.results[Len(V.results)].result.Status = FileStatusError
       /\ \A id \in IssuedIDs :
            (jobs[id] # Nil /\ jobs'[id] # Nil) =>
              \A i \in 1..Len(jobs[id].Files) :
                jobs[id].Files[i].Status = FileStatusError =>
                  jobs'[id].Files[i].Status = FileStatusError]_vars

\* The first write of a file's extraction succeeded and a later one failed:
\* the slot is in error although a topic of the document is in the database.
C28_Witness ==
    \E w \in JobRuns :
      /\ Len(workers[w].results) >= 1
      /\ workers[w].results[1].err = "upsert concept: db error"
      /\ <<workers[w].results[1].result.DocumentID, 1>> \in topicsDB
      /\ jobs[workers[w].job].Files[1].Status = FileStatusError

\* C29: for one file no stage is repeated.  The render call and the
\* synthesis call each end their stage whatever they return; a batch is
\* handed to the Analysis Client once (waiting, in flight, then ok or err for
\* good); and a file that has ended is not taken up again.
C29_NoStageRepeated ==
    [][\A w \in WorkerIDs :
         LET W == workers[w]
             V == workers'[w]
         IN V # W =>
              /\ V.idx \in {W.idx, W.idx + 1}
              /\ Len(V.results) = Len(W.results) + (V.idx - W.idx)
              /\ W.pc = "render" => V.pc # "render"
              /\ V.pc = "render" => W.pc = "extract"
              /\ W.pc = "synth" => V.pc # "synth"
              /\ V.pc = "synth" => W.pc = "batches"
              /\ (W.pc = "batches" /\ V.pc = "batches") =>
                   /\ DOMAIN V.tasks = DOMAIN W.tasks
                   /\ \A k \in DOMAIN W.tasks :
                        /\ W.tasks[k] = "inflight" => V.tasks[k] \in {"inflight", "ok", "err"}
                        /\ W.tasks[k] \in {"ok", "err"} => V.tasks[k] = W.tasks[k]]_vars

\* A run has ended in which the synthesis of the first file failed: the file
\* has exactly one result and the run went on to the end.
C29_Witness ==
    \E w \in JobRuns :
      /\ workers[w].pc = "done"
      /\ Len(workers[w].names) = 2
      /\ Len(workers[w].results) = 2
      /\ workers[w].results[1].err \in RemoteErrors
      /\ aiConfig = "vision"

\* C30: after MarkFileError on a valid slot the slot has status error, and
\* the result attached to the slot as well as the result appended to the
\* job's results have status error and a non-empty message.
C30_ErrorResultForcedOnSlot ==
    [][\A id \in IssuedIDs :
         jobs[id] # Nil =>
           \A index \in 0..(Len(jobs[id].Files) - 1), msg \in Messages, r \in ResultInputs :
             CallMarkFileError(id, index, msg, r) =>
               LET slot == jobs'[id].Files[index + 1]
                   last == jobs'[id].Results[Len(jobs'[id].Results)]
               IN /\ slot.Status = FileStatusError
                  /\ slot.Error # ""
                  /\ last.Status = FileStatusError
                  /\ last.Message # ""
                  /\ slot.Result # Nil
                  /\ slot.Result.Status = FileStatusError
                  /\ slot.Result.Message # ""]_vars

\* C31: the percent of a slot is 100 when the slot is complete, 0 when
\* current is 0, round(100 * current / total) clamped to 0..100 when
\* total > 0, and current clamped to 0..100 when total <= 0.
C31_PercentIsRounded ==
    \A id \in IssuedIDs :
      jobs[id] # Nil =>
        \A i \in 1..Len(jobs[id].Files) :
          LET slot == jobs[id].Files[i]
              clamp(x) == IF x < 0 THEN 0 ELSE IF x > 100 THEN 100 ELSE x
              rounded == (200 * slot.Current + slot.Total) \div (2 * slot.Total)
          IN /\ slot.Status = FileStatusComplete => slot.Percent = 100
             /\ slot.Status = FileStatusProcessing =>
                  /\ slot.Current = 0 => slot.Percent = 0
                  /\ slot.Total > 0 => slot.Percent = clamp(rounded)
                  /\ slot.Total <= 0 => slot.Percent = clamp(slot.Current)

(***************************************************************************)
(* The JobManager lock, one step per lock operation.  A task is a          *)
(* goroutine that calls the JobManager (runUploadJob, a batch goroutine     *)
(* through the progress callback, a status request) and does external I/O  *)
(* between its calls.  withJob: Lock, fn(job) and the UpdatedAt stamp,      *)
(* deferred Unlock.  CreateJob builds the record before Lock and clones it  *)
(* after Unlock.  GetJob: RLock, map lookup, RUnlock, then clone.           *)
(***************************************************************************)
MaxIO == 1

IOKinds == {"render", "remote call", "backoff sleep", "semaphore wait", "db write", "file write"}

LockOps == {"MarkProcessing", "MarkFileStarted", "UpdateFileProgress", "MarkFileComplete",
            "MarkFileError", "MarkCompleted", "MarkFailed"}

Task == [pc |-> "run", op |-> "", io |-> 0]

\* The task holds mu (write-locked or read-locked).
Holds(w) == workers[w].pc \in {"locked", "written", "rlocked"}

WriteLocked == \E w \in WorkerIDs : workers[w].pc \in {"locked", "written"}

ReadLocked == \E w \in WorkerIDs : workers[w].pc = "rlocked"

\* The closure a mutator hands to withJob, with the UpdatedAt stamp.
ApplyOp(op, table, id) ==
    CASE op = "MarkProcessing" -> MarkProcessing(table, id)
      [] op = "MarkFileStarted" -> MarkFileStarted(table, id, 0)
      [] op = "UpdateFileProgress" -> UpdateFileProgress(table, id, 0, "analyze", "working", 1, 3)
      [] op = "MarkFileComplete" -> MarkFileComplete(table, id, 0, OkResult)
      [] op = "MarkFileError" -> MarkFileError(table, id, 0, " boom ", ErrResult)
      [] op = "MarkCompleted" -> MarkCompleted(table, id)
      [] op = "MarkFailed" -> MarkFailed(table, id, " boom ")
      [] op = "CreateJob" -> [table EXCEPT ![id] = NewUploadJob(id, <<"a.pdf">>)]

\* External I/O of a task: it returns after some time and may leave a
\* trace outside the process.
ExternalIO(w, kind) ==
    /\ workers[w].pc = "run"
    /\ workers[w].io < MaxIO
    /\ workers' = [workers EXCEPT ![w].io = @ + 1]
    /\ documents' = IF kind = "file write" THEN documents \cup {Cardinality(documents) + 1}
                    ELSE documents
    /\ topicsDB' = IF kind = "db write" THEN topicsDB \cup {<<w, workers[w].io + 1>>}
                   ELSE topicsDB
    /\ UNCHANGED <<jobs, payloads, held, reader, aiConfig, web, deck, client>>

\* m.mu.Lock() in withJob.
LockMu(w, op) ==
    /\ workers[w].pc = "run"
    /\ ~WriteLocked /\ ~ReadLocked
    /\ CanMutate(1)
    /\ workers' = [workers EXCEPT ![w] = [@ EXCEPT !.pc = "locked", !.op = op]]
    /\ UNCHANGED <<jobs, payloads, held, reader, aiConfig, web, deck, documents, topicsDB, client>>

\* CreateJob: the record is built first; Lock is taken for the map insert.
LockMuCreate(w) ==
    /\ workers[w].pc = "run"
    /\ jobs[1] = Nil
    /\ \A v \in WorkerIDs : workers[v].op # "CreateJob"
    /\ ~WriteLocked /\ ~ReadLocked
    /\ workers' = [workers EXCEPT ![w] = [@ EXCEPT !.pc = "locked", !.op = "CreateJob"]]
    /\ UNCHANGED <<jobs, payloads, held, reader, aiConfig, web, deck, documents, topicsDB, client>>

\* A closure that also persists what it wrote while the lock is held.
ApplyAndPersist(w) ==
    /\ workers[w].pc = "locked"
    /\ jobs' = ApplyOp(workers[w].op, jobs, 1)
    /\ topicsDB' = topicsDB \cup {<<w, 0>>}
    /\ workers' = [workers EXCEPT ![w].pc = "written"]
    /\ UNCHANGED <<payloads, held, reader, aiConfig, web, deck, documents, client>>

\* fn(job); job.UpdatedAt = time.Now().UTC()
Apply(w) ==
    /\ workers[w].pc = "locked"
    /\ jobs' = ApplyOp(workers[w].op, jobs, 1)
    /\ workers' = [workers EXCEPT ![w].pc = "written"]
    /\ UNCHANGED <<payloads, held, reader, aiConfig, web, deck, documents, topicsDB, client>>

\* The deferred m.mu.Unlock(); CreateJob then returns job.clone().
UnlockMu(w) ==
    /\ workers[w].pc = "written"
    /\ workers' = [workers EXCEPT ![w] = [@ EXCEPT !.pc = "run", !.op = ""]]
    /\ held' = IF workers[w].op = "CreateJob" THEN CopyRef(clone(jobs[1])) ELSE held
    /\ UNCHANGED <<jobs, payloads, reader, aiConfig, web, deck, documents, topicsDB, client>>

\* GetJob: m.mu.RLock(); job, ok := m.jobs[id]
RLockMu(w) ==
    /\ workers[w].pc = "run"
    /\ ~WriteLocked
    /\ workers' = [workers EXCEPT ![w] = [@ EXCEPT !.pc = "rlocked", !.op = "GetJob"]]
    /\ UNCHANGED <<jobs, payloads, held, reader, aiConfig, web, deck, documents, topicsDB, client>>

\* m.mu.RUnlock()
RUnlockMu(w) ==
    /\ workers[w].pc = "rlocked"
    /\ workers' = [workers EXCEPT ![w].pc = "clone"]
    /\ UNCHANGED <<jobs, payloads, held, reader, aiConfig, web, deck, documents, topicsDB, client>>

\* return job.clone(), true (or nil, false)
CloneUnlocked(w) ==
    /\ workers[w].pc = "clone"
    /\ held' = IF jobs[1] = Nil THEN NotFound ELSE CopyRef(clone(jobs[1]))
    /\ workers' = [workers EXCEPT ![w] = [@ EXCEPT !.pc = "run", !.op = ""]]
    /\ UNCHANGED <<jobs, payloads, reader, aiConfig, web, deck, documents, topicsDB, client>>

InitLock == InitPipeline([w \in 1..MaxWorkers |-> Task], {"vision"})

NextLock ==
    \/ \E w \in WorkerIDs, kind \in IOKinds : ExternalIO(w, kind)
    \/ \E w \in WorkerIDs, op \in LockOps : LockMu(w, op)
    \/ \E w \in WorkerIDs : LockMuCreate(w)
    \/ \E w \in WorkerIDs : Apply(w)
    \/ \E w \in WorkerIDs : UnlockMu(w)
    \/ \E w \in WorkerIDs : RLockMu(w)
    \/ \E w \in WorkerIDs : RUnlockMu(w)
    \/ \E w \in WorkerIDs : CloneUnlocked(w)

SpecLock == InitLock /\ [][NextLock]_vars

\* C32: a task that holds the JobManager lock does no external I/O: its
\* steps until the release change nothing outside the manager's memory, and
\* no I/O of the task begins or ends while it holds the lock.
C32_NoIOUnderLock ==
    [][\A w \in WorkerIDs :
         (Holds(w) \/ workers'[w].pc \in {"locked", "written", "rlocked"}) =>
           /\ workers'[w].io = workers[w].io
           /\ workers'[w] # workers[w] => UNCHANGED <<documents, topicsDB, payloads>>]_vars

\* A task holds the write lock with its closure applied, after it and the
\* other task did external I/O.
C32_Witness ==
    \E w, v \in WorkerIDs :
      /\ w # v
      /\ workers[w].pc = "written"
      /\ workers[w].op = "UpdateFileProgress"
      /\ workers[w].io > 0
      /\ workers[v].io > 0
      /\ topicsDB # {}
      /\ jobs[1] # Nil

(***************************************************************************)
(* The web search client (pkg/websearch).  web.sessionID is                *)
(* service.sessionID (0 for ""), web.mux the holder of sessionMux's write  *)
(* lock (0 when free; read-locked sections only read one field and are one *)
(* step, enabled while no writer holds the lock).  The remote keeps the    *)
(* set of sessions it accepts and may drop them.                           *)
(***************************************************************************)
MaxSearches == 2
MaxExpiries == 1
SearchMaxRetries == 2

SearchIDs == 1..MaxSearches

IdleSearch == [pc |-> "idle", attempt |-> 0, sid |-> 0, sessionErrs |-> 0,
               otherErrs |-> 0, out |-> ""]

\* Everything but the web search service.
notWeb == <<jmVars, workers, aiConfig, documents, topicsDB, client, deck>>

SetSearch(s, rec) == [web EXCEPT !.searches[s] = rec]

\* SearchWithOptions is called.
SearchStart(s) ==
    /\ web.searches[s].pc = "idle"
    /\ web' = SetSearch(s, [web.searches[s] EXCEPT !.pc = "ensure"])
    /\ UNCHANGED notWeb

\* ensureSession: under RLock, return if a session id is stored.
EnsureSession(s) ==
    /\ web.searches[s].pc = "ensure"
    /\ web.mux = 0
    /\ web' = SetSearch(s, [web.searches[s] EXCEPT
                              !.pc = IF web.sessionID # 0 THEN "read" ELSE "initlock"])
    /\ UNCHANGED notWeb

\* initializeSession: s.sessionMux.Lock()
InitLockMux(s) ==
    /\ web.searches[s].pc = "initlock"
    /\ web.mux = 0
    /\ web' = [SetSearch(s, [web.searches[s] EXCEPT !.pc = "initcheck"]) EXCEPT !.mux = s]
    /\ UNCHANGED notWeb

\* An initialization that does not look at the stored session again.
InitCheckAlways(s) ==
    /\ web.searches[s].pc = "initcheck"
    /\ web' = [SetSearch(s, [web.searches[s] EXCEPT !.pc = "initwait"])
                 EXCEPT !.inflight = @ + 1, !.sent = @ + 1]
    /\ UNCHANGED notWeb

\* The double check under the write lock, then the initialize request is
\* sent with the lock held.
InitCheck(s) ==
    /\ web.searches[s].pc = "initcheck"
    /\ IF web.sessionID # 0
       THEN web' = [SetSearch(s, [web.searches[s] EXCEPT !.pc = "read"]) EXCEPT !.mux = 0]
       ELSE web' = [SetSearch(s, [web.searches[s] EXCEPT !.pc = "initwait"])
                      EXCEPT !.inflight = @ + 1, !.sent = @ + 1]
    /\ UNCHANGED notWeb

\* The remote answers with an Mcp-Session-Id header: it is stored and the
\* deferred Unlock runs.
InitOk(s) ==
    /\ web.searches[s].pc = "initwait"
    /\ web' = [SetSearch(s, [web.searches[s] EXCEPT !.pc = "read"])
                 EXCEPT !.sessionID = web.issued + 1, !.issued = @ + 1,
                        !.valid = @ \cup {web.issued + 1},
                        !.inflight = @ - 1, !.mux = 0]
    /\ UNCHANGED notWeb

\* The initialize request fails: SearchWithOptions returns the error.
InitFail(s) ==
    /\ web.searches[s].pc = "initwait"
    /\ web' = [SetSearch(s, [web.searches[s] EXCEPT !.pc = "done",
                                                    !.out = "session_init_failed"])
                 EXCEPT !.inflight = @ - 1, !.mux = 0]
    /\ UNCHANGED notWeb

\* `continue` / the end of the loop in executeRequestWithRetry.
NextAttempt(rec) ==
    IF rec.attempt + 1 <= SearchMaxRetries
    THEN [rec EXCEPT !.pc = "read", !.attempt = @ + 1]
    ELSE [rec EXCEPT !.pc = "done", !.attempt = @ + 1, !.out = "request_failed"]

\* executeSingleRequest: read the session id under RLock; without one the
\* attempt fails with no_session.
ReadSession(s) ==
    LET rec == web.searches[s] IN
    /\ rec.pc = "read"
    /\ web.mux = 0
    /\ web' = SetSearch(s, IF web.sessionID = 0
                           THEN [rec EXCEPT !.pc = "clear", !.sid = 0,
                                            !.sessionErrs = @ + 1]
                           ELSE [rec EXCEPT !.pc = "request", !.sid = web.sessionID])
    /\ UNCHANGED notWeb

\* The remote accepts the session and returns results.
ReplyOk(s) ==
    LET rec == web.searches[s] IN
    /\ rec.pc = "request"
    /\ rec.sid \in web.valid
    /\ web' = SetSearch(s, [rec EXCEPT !.pc = "done", !.out = "ok"])
    /\ UNCHANGED notWeb

\* The remote does not know the session: an error naming the session.
ReplySessionError(s) ==
    LET rec == web.searches[s] IN
    /\ rec.pc = "request"
    /\ rec.sid \notin web.valid
    /\ web' = SetSearch(s, [rec EXCEPT !.pc = "httpclear", !.sessionErrs = @ + 1])
    /\ UNCHANGED notWeb

\* A network error or a 5xx: retried.
ReplyServerError(s) ==
    LET rec == web.searches[s] IN
    /\ rec.pc = "request"
    /\ rec.otherErrs = 0
    /\ web' = SetSearch(s, [NextAttempt(rec) EXCEPT !.otherErrs = 1])
    /\ UNCHANGED notWeb

\* invalid_api_key / rate_limit_exceeded: returned at once.
ReplyTerminal(s) ==
    LET rec == web.searches[s] IN
    /\ rec.pc = "request"
    /\ rec.otherErrs = 0
    /\ web' = SetSearch(s, [rec EXCEPT !.pc = "done", !.out = "rate_limit_exceeded",
                                       !.otherErrs = 1])
    /\ UNCHANGED notWeb

\* handleHTTPError clears the session under the write lock.
HTTPErrorClear(s) ==
    /\ web.searches[s].pc = "httpclear"
    /\ web.mux = 0
    /\ web' = [SetSearch(s, [web.searches[s] EXCEPT !.pc = "clear"]) EXCEPT !.sessionID = 0]
    /\ UNCHANGED notWeb

\* executeRequestWithRetry on a session error: clear the session, `continue`.
RetryClear(s) ==
    /\ web.searches[s].pc = "clear"
    /\ web.mux = 0
    /\ web' = [SetSearch(s, NextAttempt(web.searches[s])) EXCEPT !.sessionID = 0]
    /\ UNCHANGED notWeb

\* The remote drops the sessions it knew.
ExpireSessions ==
    /\ web.expired < MaxExpiries
    /\ web.valid # {}
    /\ web' = [web EXCEPT !.valid = {}, !.expired = @ + 1]
    /\ UNCHANGED notWeb

InitSearch ==
    /\ jobs = [id \in JobIDs |-> Nil]
    /\ payloads = [a \in PayloadAddrs |-> Nil]
    /\ held = Nil
    /\ reader = Nil
    /\ workers = <<>>
    /\ aiConfig = "vision"
    /\ documents = {}
    /\ topicsDB = {}
    /\ client = Nil
    /\ web = [sessionID |-> 0, mux |-> 0, valid |-> {}, issued |-> 0, inflight |-> 0,
              sent |-> 0, expired |-> 0, searches |-> [s \in SearchIDs |-> IdleSearch]]
    /\ deck = Nil

NextSearch ==
    \/ \E s \in SearchIDs : SearchStart(s)
    \/ \E s \in SearchIDs : EnsureSession(s)
    \/ \E s \in SearchIDs : InitLockMux(s)
    \/ \E s \in SearchIDs : InitCheck(s)
    \/ \E s \in SearchIDs : InitOk(s)
    \/ \E s \in SearchIDs : InitFail(s)
    \/ \E s \in SearchIDs : ReadSession(s)
    \/ \E s \in SearchIDs : ReplyOk(s)
    \/ \E s \in SearchIDs : ReplySessionError(s)
    \/ \E s \in SearchIDs : ReplyServerError(s)
    \/ \E s \in SearchIDs : ReplyTerminal(s)
    \/ \E s \in SearchIDs : HTTPErrorClear(s)
    \/ \E s \in SearchIDs : RetryClear(s)
    \/ ExpireSessions

SpecSearch == InitSearch /\ [][NextSearch]_vars

\* C33: a search whose only failures were session errors (a stale or
\* missing session) ends with results: after the session was cleared the
\* next attempt runs with a freshly initialized session.
C33_StaleSessionRecovered ==
    \A s \in SearchIDs :
      LET rec == web.searches[s] IN
      (rec.pc = "done" /\ rec.sessionErrs > 0 /\ rec.otherErrs = 0
         /\ rec.out # "session_init_failed") => rec.out = "ok"

\* C37: at most one session-initialization request is in flight at any
\* time; an initialization request is only sent, with the write lock held,
\* while no session id is stored; so as long as no initialization failed and
\* the remote dropped no session, concurrent searches send one request in all.
C37_OneInitialization ==
    [][/\ web'.inflight <= 1
       /\ web'.sent > web.sent => (web.sessionID = 0 /\ web.mux # 0 /\ web.inflight = 0)
       /\ (/\ web'.expired = 0
           /\ \A s \in SearchIDs : web'.searches[s].out # "session_init_failed")
            => web'.sent <= 1]_vars

\* One initialization has stored a session id; a second search that was
\* waiting for the lock now holds it and finds the session.
C37_Witness ==
    \E s \in SearchIDs :
      /\ web.searches[s].pc = "initcheck"
      /\ web.sessionID # 0
      /\ web.sent = 1

\* C35: once a slot is complete or in error nothing about it changes any
\* more (a progress update would put it back to processing): the analysis
\* stage ends, with or without error, only when every batch task has
\* finished, and a slot is never terminal while a batch task of its file is
\* waiting or in flight.
C35_NoProgressAfterTerminal ==
    [][/\ \A id \in IssuedIDs :
            (jobs[id] # Nil /\ jobs'[id] # Nil) =>
              \A i \in 1..Len(jobs[id].Files) :
                TerminalFile(jobs[id].Files[i]) => jobs'[id].Files[i] = jobs[id].Files[i]
       /\ \A w \in JobRuns :
            LET W == workers[w]
                V == workers'[w]
            IN /\ (W.pc = "batches" /\ V.pc # "batches") =>
                    \A k \in DOMAIN W.tasks : W.tasks[k] \in {"ok", "err"}
               /\ (\E k \in DOMAIN W.tasks : W.tasks[k] \in {"waiting", "inflight"}) =>
                    ~TerminalFile(jobs[W.job].Files[W.idx + 1])]_vars

\* The first file of a job ended in error in the analysis stage; the run is
\* analysing the second file with a batch in flight, and the first slot
\* still shows the error.
C35_Witness ==
    \E w \in JobRuns :
      /\ workers[w].idx = 1
      /\ workers[w].pc = "batches"
      /\ \E k \in DOMAIN workers[w].tasks : workers[w].tasks[k] = "inflight"
      /\ workers[w].results[1].err \in ErrorsOfStage(workers[w], "batches")
      /\ jobs[workers[w].job].Files[1].Status = FileStatusError
      /\ jobs[workers[w].job].Files[2].Status = FileStatusProcessing

\* C36: a job never holds more results than slots; when runUploadJob has
\* marked it complete it holds one result per uploaded file, the i-th for
\* the i-th file, whose slot is terminal.  This rests on the indices being
\* valid: MarkFileComplete and MarkFileError with an index out of range
\* leave every slot as it is and still append a result.
C36_OneResultPerFile ==
    \A id \in IssuedIDs :
      jobs[id] # Nil =>
        LET job == jobs[id]
            n == Len(job.Files)
        IN /\ Len(job.Results) <= n
           /\ job.Status = JobStatusComplete =>
                /\ Len(job.Results) = n
                /\ \A i \in 1..n :
                     /\ TerminalFile(job.Files[i])
                     /\ job.Results[i].Name = job.Files[i].Name
           /\ \A index \in {-1, n} :
                /\ MarkFileComplete(jobs, id, index, OkResult)[id].Files = job.Files
                /\ MarkFileComplete(jobs, id, index, OkResult)[id].Results
                     = Append(job.Results, OkResult)
                /\ MarkFileError(jobs, id, index, "boom", ErrResult)[id].Files = job.Files
                /\ Len(MarkFileError(jobs, id, index, "boom", ErrResult)[id].Results)
                     = Len(job.Results) + 1

\* A job of two files is complete; one file failed, the other succeeded.
C36_Witness ==
    \E id \in IssuedIDs :
      /\ jobs[id] # Nil
      /\ jobs[id].Status = JobStatusComplete
      /\ Len(jobs[id].Files) = 2
      /\ Len(jobs[id].Results) = 2
      /\ jobs[id].Results[1].Status = FileStatusError
      /\ jobs[id].Results[2].Status # FileStatusError

(***************************************************************************)
(* FlashcardService.ReviewCard and the working queue (flashcards.go).      *)
(* The database has one connection (SetMaxOpenConns(1)), so transactions   *)
(* are serial.  deck.cards and deck.logs are the committed rows of cards   *)
(* and review_logs, deck.view is what an open transaction has written,     *)
(* deck.tx tells whether a transaction of a returned call is still open,   *)
(* deck.ret records the last return and the rows committed before it.      *)
(* A position 0 is working_queue_position NULL.                            *)
(***************************************************************************)
MaxCards == 2
MaxReviews == 3
workingQueueSize == 20

Again == 1
Hard == 2
Good == 3
Easy == 4

\* The ratings fsrs Repeat schedules; rating 0 (Manual) is not among them.
SupportedRatings == {Again, Hard, Good, Easy}
Ratings == {0} \cup SupportedRatings

CardIDs == 1..MaxCards
\* The ids a caller may pass: the stored cards and one that does not exist.
RequestedIDs == 1..(MaxCards + 1)

\* The statement of ReviewCard that the database fails, if any.
Faults == {"none", "begin tx", "load card", "check existing position",
           "get max position", "find oldest card", "remove oldest card",
           "shift positions", "add card to queue", "get card position",
           "remove card from queue", "shift positions down", "update card",
           "insert review log", "commit review"}

notDeck == <<jmVars, workers, aiConfig, documents, topicsDB, client, web>>

\* The cards that hold a working-queue position.
InQueue(rows) == {c \in DOMAIN rows : rows[c].pos # 0}

\* SELECT MAX(working_queue_position): 0 stands for NULL.
MaxPosition(rows) ==
    IF InQueue(rows) = {} THEN 0
    ELSE LET c == CHOOSE c \in InQueue(rows) : \A d \in InQueue(rows) : rows[d].pos <= rows[c].pos
         IN rows[c].pos

\* ORDER BY working_queue_position ASC LIMIT 1
OldestCard(rows) ==
    CHOOSE c \in InQueue(rows) : \A d \in InQueue(rows) : rows[c].pos <= rows[d].pos

\* addToWorkingQueue: the rows after it and the error it returns.
addToWorkingQueue(rows, cardID, fault) ==
    IF fault = "check existing position" THEN [rows |-> rows, err |-> fault]
    ELSE IF rows[cardID].pos # 0 THEN [rows |-> rows, err |-> ""]
    ELSE IF fault = "get max position" THEN [rows |-> rows, err |-> fault]
    ELSE LET newPosition == MaxPosition(rows) + 1
         IN IF newPosition > workingQueueSize
            THEN IF fault \in {"find oldest card", "remove oldest card"}
                 THEN [rows |-> rows, err |-> fault]
                 ELSE LET r1 == [rows EXCEPT ![OldestCard(rows)].pos = 0]
                          r2 == [c \in DOMAIN r1 |->
                                   IF r1[c].pos # 0 THEN [r1[c] EXCEPT !.pos = @ - 1] ELSE r1[c]]
                      IN IF fault = "shift positions" THEN [rows |-> r1, err |-> fault]
                         ELSE IF fault = "add card to queue" THEN [rows |-> r2, err |-> fault]
                         ELSE [rows |-> [r2 EXCEPT ![cardID].pos = workingQueueSize], err |-> ""]
            ELSE IF fault = "add card to queue" THEN [rows |-> rows, err |-> fault]
                 ELSE [rows |-> [rows EXCEPT ![cardID].pos = newPosition], err |-> ""]

\* removeFromWorkingQueue: the rows after it and the error it returns.
removeFromWorkingQueue(rows, cardID, fault) ==
    IF fault = "get card position" THEN [rows |-> rows, err |-> fault]
    ELSE IF rows[cardID].pos = 0 THEN [rows |-> rows, err |-> ""]
    ELSE IF fault = "remove card from queue" THEN [rows |-> rows, err |-> fault]
    ELSE LET position == rows[cardID].pos
             r1 == [rows EXCEPT ![cardID].pos = 0]
             r2 == [c \in DOMAIN r1 |->
                      IF r1[c].pos > position THEN [r1[c] EXCEPT !.pos = @ - 1] ELSE r1[c]]
         IN IF fault = "shift positions down" THEN [rows |-> r1, err |-> fault]
            ELSE [rows |-> r2, err |-> ""]

\* UPDATE cards SET ..., working_queue_position = ? WHERE id = ?: the
\* scheduling fields of the card struct (reps stands for them) and the
\* position the struct was loaded with at the start of the call.
UpdateCard(rows, cardID, card) ==
    [rows EXCEPT ![cardID] = [pos |-> card.pos, reps |-> card.reps + 1]]

\* One call of ReviewCard: what is committed, what the transaction holds
\* when the call returns, and the error returned.  The deferred function
\* rolls back when the function-level variable err is set; tx is "open"
\* where the call returns with that variable nil and no commit.
ReviewOutcome(cardID, rating, fault) ==
    LET rows == deck.cards
        kept(err, tx, view) == [cards |-> rows, logs |-> deck.logs, tx |-> tx,
                                view |-> view, err |-> err]
    IN IF fault = "begin tx" THEN kept("begin tx", "none", rows)
       ELSE IF cardID \notin DOMAIN rows \/ fault = "load card"
       THEN kept("load card", "none", rows)                 \* err = row.Scan(...)
       ELSE IF rating \notin SupportedRatings
       THEN kept("rating not supported", "open", rows)      \* err is still nil
       ELSE LET card == rows[cardID]
                q == IF rating = Again THEN addToWorkingQueue(rows, cardID, fault)
                     ELSE removeFromWorkingQueue(rows, cardID, fault)
            IN IF q.err # ""
               THEN kept(IF rating = Again THEN "add to working queue"
                         ELSE "remove from working queue",
                         "open", q.rows)                    \* `if err := ...` shadows err
               ELSE IF fault \in {"update card", "insert review log", "commit review"}
               THEN kept(fault, "none", rows)               \* _, err = ...; err = tx.Commit()
               ELSE [cards |-> UpdateCard(q.rows, cardID, card),
                     logs |-> Append(deck.logs, [card |-> cardID, rating |-> rating]),
                     tx |-> "none", view |-> UpdateCard(q.rows, cardID, card), err |-> ""]

ReviewCard(cardID, rating, fault) ==
    /\ deck # Nil
    /\ deck.tx = "none"
    /\ deck.calls < MaxReviews
    /\ LET o == ReviewOutcome(cardID, rating, fault)
       IN deck' = [cards |-> o.cards, logs |-> o.logs, tx |-> o.tx, view |-> o.view,
                   calls |-> deck.calls + 1,
                   ret |-> [card |-> cardID, rating |-> rating, err |-> o.err,
                            cards |-> deck.cards, logs |-> deck.logs]]
    /\ UNCHANGED notDeck

\* The request's context ends after the handler has returned: database/sql
\* rolls back a transaction that is still open.
ContextDone ==
    /\ deck # Nil
    /\ deck.tx = "open"
    /\ deck' = [deck EXCEPT !.tx = "none", !.view = deck.cards]
    /\ UNCHANGED notDeck

InitDeck ==
    /\ jobs = [id \in JobIDs |-> Nil]
    /\ payloads = [a \in PayloadAddrs |-> Nil]
    /\ held = Nil
    /\ reader = Nil
    /\ workers = <<>>
    /\ aiConfig = "vision"
    /\ documents = {}
    /\ topicsDB = {}
    /\ client = Nil
    /\ web = Nil
    /\ deck = [cards |-> [c \in CardIDs |-> [pos |-> 0, reps |-> 0]],
               logs |-> <<>>, tx |-> "none",
               view |-> [c \in CardIDs |-> [pos |-> 0, reps |-> 0]],
               calls |-> 0,
               ret |-> [card |-> 0, rating |-> 0, err |-> "", cards |-> <<>>, logs |-> <<>>]]

NextDeck ==
    \/ \E cardID \in RequestedIDs, rating \in Ratings, fault \in Faults :
         ReviewCard(cardID, rating, fault)
    \/ ContextDone

SpecDeck == InitDeck /\ [][NextDeck]_vars

\* C34: after a committed review the reviewed card holds a working-queue
\* position if and only if the rating was Again.
C34_QueuedIffAgain ==
    (deck.calls > 0 /\ deck.ret.err = "") =>
        (deck.cards[deck.ret.card].pos # 0 <=> deck.ret.rating = Again)

\* C39: when ReviewCard has returned an error no transaction is open, and
\* the committed cards and review logs are those from before the call.
C39_ErrorReturnRollsBack ==
    (deck.calls > 0 /\ deck.ret.err # "") =>
        /\ deck.tx = "none"
        /\ deck.cards = deck.ret.cards
        /\ deck.logs = deck.ret.logs

\* C38: the working-queue positions of the committed cards are pairwise
\* distinct and are exactly 1..k for some k <= workingQueueSize.
C38_PositionsContiguous ==
    LET k == Cardinality(InQueue(deck.cards))
    IN /\ k <= workingQueueSize
       /\ {deck.cards[c].pos : c \in InQueue(deck.cards)} = 1..k

====
